---- MODULE Spec2Model ----
(***************************************************************************)
(* Model of the igg Markov trainer (generate_markov_models.py), generator   *)
(* (mcp_markov_models.py), S3 processors (model_processor.py,              *)
(* lambda_function.py) and MCP handler (lambda_handler.py).                *)
(*                                                                         *)
(* Text is a sequence of one-character strings, so that the regular        *)
(* expressions, str.join and str.replace of the source can be computed.    *)
(* A Python dict is a sequence of entries [k |-> key, v |-> value] in      *)
(* insertion order.  A probability v / total is the record                 *)
(* [num |-> v, den |-> total].                                             *)
(***************************************************************************)
EXTENDS Integers, Sequences, FiniteSets, TLC

\* ------------------------------------------------------------------ bounds

\* Rows of the training table.
MaxRows == 2

\* random.random() is drawn from {0, 1/R, ..., (R-1)/R} with R = DrawResolution.
DrawResolution == 4

\* Stand-in for the interpreter's recursion limit (sys.getrecursionlimit()):
\* the number of nested generate_phrase calls after which the next call
\* raises RecursionError.
RecursionLimit == 3

\* Trials of a call on a Model Set that generates phrases.
MaxTrials == 2

\* Characters of the templates that are all enumerated.
MaxTemplateLen == 2

\* Items handed to one call of weighted_random_choice.
MaxItems == 3

\* The largest weight of an item, in units of the smallest positive weight.
MaxWeight == 2

\* Draws the first of two runs of generate_phrase may consume.
MaxTape == 4

\* Invocations of load_model, or of a processor, that run at the same time.
Invocations == 2

\* Calls of update_index, one after the other.
MaxUpdates == 3

\* Records of one S3 event.
MaxRecords == 2

\* ------------------------------------------------------------- state

VARIABLES
    \* generate_markov_models.extract_columns
    df,              \* the table: one sequence of cells per column
    col,             \* position in df.columns of the next column to process
    transitions,     \* defaultdict(Counter) of the column processed last
    start_words,     \* Counter of the column processed last
    end_words,       \* Counter of the column processed last
    lengths,         \* list of token counts of the column processed last
    markov_models,   \* the list extract_columns builds and returns
    train_pc,        \* "idle" | "loop" | "returned"
    \* mcp_markov_models.generate_phrase
    model,           \* the Column Model the call was given
    max_length,
    target_length,
    current_word,
    phrase,          \* the list of tokens built so far
    attempts,
    depth,           \* generate_phrase frames below the running one (restarts so far)
    gp_result,       \* the string returned
    gp_error,        \* the exception raised
    gp_pc,           \* "idle" | "call" | "loop" | "post" | "done" | "failed"
    \* mcp_markov_models.generate_ideas and generate_with_template
    op,              \* the function called
    count,
    template,
    model_set,       \* markov_models, the Model Set load_model returned
    ideas,
    trial,           \* the trials of `for _ in range(count)` completed
    column,          \* position in markov_models of the next model
    row_phrases,     \* row_phrases / generated_phrases of the running trial
    gi_error,        \* the exception raised
    gi_pc,           \* "idle" | "start" | "trial" | "await" | "returned" | "raised"
    phrase_log,      \* every string generate_phrase returned to the call, in order
    \* mcp_markov_models.weighted_random_choice
    wc_items,        \* items
    wc_weights,      \* weights
    wc_draw,         \* random.random() = wc_draw / DrawResolution
    wc_result,       \* the item returned, or the exception raised
    wc_pc,           \* "idle" | "call" | "done"
    \* two runs of generate_phrase on one stream of random draws
    run_no,          \* 0 (no run) | 1 | 2
    tape,            \* the draws the first run consumed, in order
    pos,             \* the position on the tape of the next draw of the second run
    order,           \* list(vocabulary) in the interpreter of the running run
    first_result,    \* what the first run returned or raised
    \* mcp_markov_models.load_model, one call per invocation
    cache,           \* CACHE_DIR: the content of each file, by file name
    model_name,      \* of each invocation
    model_data,      \* of each invocation: the document fetched
    loaded,          \* of each invocation: the document load_model returned
    lm_pc,           \* of each invocation: "start" | "fetch" | "open" | "dump" |
                     \*   "written" | "returned" | "raised"
    \* generate_markov_models.generate, model_processor.process_csv and upload_json
    trainer,         \* the module that trains: "generate_markov_models" | "model_processor"
    json_data,       \* what process_csv returned
    document,        \* the JSON document written to out_file or put in the bucket
    doc_pc,          \* "idle" | "train" | "processed" | "written"
    \* lambda_function.update_index, one call after the other
    index,           \* the object index.json of the bucket
    index_data,      \* of the running call
    model_key,       \* of the running call
    ui_pc,           \* "idle" | "ready" | "download" | "insert" | "upload" |
                     \*   "returned" | "raised"
    processed,       \* the model keys whose update_index returned
    updates,         \* the calls of update_index so far
    \* model_processor.lambda_handler and lambda_function.lambda_handler
    handler,         \* the module deployed: "model_processor" | "lambda_function"
    bucket,          \* the keys of the model documents put in the bucket
    index_json,      \* the object index.json of the bucket
    invocation,      \* of each invocation: its event, its locals, its position,
                     \*   the calls it made and what it returned
    \* lambda_handler.lambda_handler and handle_mcp_request
    http_event,      \* the API Gateway event
    body,            \* json.loads(event.get('body', '{}'))
    rpc_result,      \* what handle_mcp_request returned or raised
    http_response,   \* what lambda_handler returned or raised
    mcp_pc           \* "idle" | "event" | "parsed" | "tool" | "handled" | "responded"

trainVars == <<df, col, transitions, start_words, end_words, lengths,
               markov_models, train_pc>>

phraseVars == <<model, max_length, target_length, current_word, phrase, attempts,
                depth, gp_result, gp_error, gp_pc>>

ideaVars == <<op, count, template, model_set, ideas, trial, column, row_phrases,
              gi_error, gi_pc, phrase_log>>

choiceVars == <<wc_items, wc_weights, wc_draw, wc_result, wc_pc>>

replayVars == <<run_no, tape, pos, order, first_result>>

loadVars == <<cache, model_name, model_data, loaded, lm_pc>>

docVars == <<trainer, json_data, document, doc_pc>>

indexVars == <<index, index_data, model_key, ui_pc, processed, updates>>

processorVars == <<handler, bucket, index_json, invocation>>

mcpVars == <<http_event, body, rpc_result, http_response, mcp_pc>>

\* The variables of the functions modelled after generate_ideas.
laterVars == <<choiceVars, replayVars, loadVars, docVars, indexVars, processorVars,
              mcpVars>>

\* Everything but the variables of weighted_random_choice.
exceptChoice == <<trainVars, phraseVars, ideaVars, replayVars, loadVars, docVars, indexVars,
    processorVars, mcpVars>>

\* Everything but the variables of generate_phrase and of its two runs.
exceptReplay == <<trainVars, ideaVars, choiceVars, loadVars, docVars, indexVars,
    processorVars, mcpVars>>

\* Everything but the variables of load_model.
exceptLoad == <<trainVars, phraseVars, ideaVars, choiceVars, replayVars, docVars, indexVars,
    processorVars, mcpVars>>

\* Everything but the variables of the trainers and their documents.
exceptDoc == <<phraseVars, ideaVars, choiceVars, replayVars, loadVars, indexVars,
    processorVars, mcpVars>>

\* Everything but the variables of update_index.
exceptIndex == <<trainVars, phraseVars, ideaVars, choiceVars, replayVars, loadVars,
                 docVars, processorVars, mcpVars>>

\* Everything but the variables of the two processors.
exceptProcessor == <<trainVars, phraseVars, ideaVars, choiceVars, replayVars, loadVars,
                     docVars, indexVars, mcpVars>>

\* Everything but the variables of the MCP handler.
exceptMcp == <<trainVars, phraseVars, ideaVars, choiceVars, replayVars, loadVars,
               docVars, indexVars, processorVars>>

vars == <<trainVars, phraseVars, ideaVars, laterVars>>

\* ------------------------------------------------------------- text

\* Python's None and pandas' missing cell: a value that is no text.
None == <<"None">>

\* No exception.
NoErr == "none"

\* The value of a variable that holds no Column Model.
NoModel ==
    [column_index |-> -1, transitions |-> <<>>, start_words |-> <<>>,
     end_words |-> <<>>, lengths |-> <<>>]

Letters == {"a", "b", "n"}

Digits == <<"0", "1", "2", "3", "4", "5", "6", "7", "8", "9">>

IsDigit(c) == \E i \in 1..Len(Digits) : Digits[i] = c

IsAlnum(c) == c \in Letters \/ IsDigit(c)

\* The value of a digit character.
DigitValue(c) == (CHOOSE i \in 1..Len(Digits) : Digits[i] = c) - 1

\* int(text): the value of a decimal numeral; ValueError for any other text.
RECURSIVE ParseDigits(_, _)
ParseDigits(text, acc) ==
    IF text = <<>> THEN acc
    ELSE ParseDigits(Tail(text), 10 * acc + DigitValue(Head(text)))

IsNumeral(text) == text # <<>> /\ \A i \in 1..Len(text) : IsDigit(text[i])

ParseInt(text) == ParseDigits(text, 0)

\* str(n) for n >= 0.
RECURSIVE ToDigits(_)
ToDigits(n) ==
    IF n < 10 THEN <<Digits[n + 1]>>
    ELSE ToDigits(n \div 10) \o <<Digits[(n % 10) + 1]>>

\* sep.join(parts)
RECURSIVE StrJoin(_, _)
StrJoin(sep, parts) ==
    IF parts = <<>> THEN <<>>
    ELSE IF Len(parts) = 1 THEN parts[1]
    ELSE parts[1] \o sep \o StrJoin(sep, Tail(parts))

IsSpace(c) == c = " "

\* re.sub(r'[^a-zA-Z0-9\s]', '', text)
StripNonAlnum(text) == SelectSeq(text, LAMBDA c : IsAlnum(c) \/ IsSpace(c))

\* re.sub(r'\s+', ' ', text)
RECURSIVE CollapseSpaces(_)
CollapseSpaces(text) ==
    IF Len(text) <= 1 THEN text
    ELSE IF IsSpace(text[1]) /\ IsSpace(text[2])
         THEN CollapseSpaces(Tail(text))
         ELSE <<text[1]>> \o CollapseSpaces(Tail(text))

\* text.strip()
RECURSIVE LStrip(_)
LStrip(text) ==
    IF text # <<>> /\ IsSpace(Head(text)) THEN LStrip(Tail(text)) ELSE text

RECURSIVE RStrip(_)
RStrip(text) ==
    IF text # <<>> /\ IsSpace(text[Len(text)])
    THEN RStrip(SubSeq(text, 1, Len(text) - 1))
    ELSE text

preprocess_text(text) == RStrip(LStrip(CollapseSpaces(StripNonAlnum(text))))

\* nltk.word_tokenize on a text of letters and single spaces: its words.
RECURSIVE SplitWords(_, _)
SplitWords(text, word) ==
    IF text = <<>> THEN (IF word = <<>> THEN <<>> ELSE <<word>>)
    ELSE IF IsSpace(Head(text))
         THEN (IF word = <<>> THEN <<>> ELSE <<word>>) \o SplitWords(Tail(text), <<>>)
         ELSE SplitWords(Tail(text), Append(word, Head(text)))

word_tokenize(text) == SplitWords(text, <<>>)

\* ------------------------------------------------------------- dicts

Keys(d) == [i \in 1..Len(d) |-> d[i].k]

KeySet(d) == {d[i].k : i \in 1..Len(d)}

Has(d, key) == \E i \in 1..Len(d) : d[i].k = key

Get(d, key) == d[CHOOSE i \in 1..Len(d) : d[i].k = key].v

\* counter[key] += 1
Incr(d, key) ==
    IF Has(d, key)
    THEN [i \in 1..Len(d) |->
            IF d[i].k = key THEN [k |-> key, v |-> d[i].v + 1] ELSE d[i]]
    ELSE Append(d, [k |-> key, v |-> 1])

\* transitions[a][b] += 1 on a defaultdict(Counter)
IncrNested(d, a, b) ==
    IF Has(d, a)
    THEN [i \in 1..Len(d) |->
            IF d[i].k = a THEN [k |-> a, v |-> Incr(d[i].v, b)] ELSE d[i]]
    ELSE Append(d, [k |-> a, v |-> <<[k |-> b, v |-> 1]>>])

RECURSIVE SumValues(_)
SumValues(d) == IF d = <<>> THEN 0 ELSE Head(d).v + SumValues(Tail(d))

\* Counter(list)
RECURSIVE CounterOf(_)
CounterOf(list) ==
    IF list = <<>> THEN <<>>
    ELSE Incr(CounterOf(SubSeq(list, 1, Len(list) - 1)), list[Len(list)])

\* ------------------------------------------------------------- trainer

\* Mutation: the number of keys taken for the sum of the counts.
NormalizeTotalKeys(counter) == Len(counter)

\* Line 18: total = sum(counter.values())
NormalizeTotal(counter) == SumValues(counter)

normalize(counter) ==
    LET total == NormalizeTotal(counter)
    IN  [i \in 1..Len(counter) |->
            [k |-> counter[i].k, v |-> [num |-> counter[i].v, den |-> total]]]

\* Mutation: the loop stops one pair early, range(len(tokens) - 2).
RECURSIVE BuildTransitionsShort(_, _, _)
BuildTransitionsShort(t, tokens, i) ==
    IF i >= Len(tokens) - 1 THEN t
    ELSE BuildTransitionsShort(IncrNested(t, tokens[i], tokens[i + 1]), tokens, i + 1)

\* Lines 81-83: for i in range(len(tokens) - 1)
RECURSIVE BuildTransitions(_, _, _)
BuildTransitions(t, tokens, i) ==
    IF i >= Len(tokens) THEN t
    ELSE BuildTransitions(IncrNested(t, tokens[i], tokens[i + 1]), tokens, i + 1)

\* Mutation: the first token is counted as the end word.
FirstToken(tokens) == tokens[1]

\* Line 79: tokens[-1]
LastToken(tokens) == tokens[Len(tokens)]

\* Mutation: the length is recorded only for a phrase that has tokens.
ExtractPhraseSkipEmpty(c, text) ==
    LET tokens == word_tokenize(preprocess_text(text))
    IN  IF tokens # <<>>
        THEN [c EXCEPT !.lengths = Append(@, Len(tokens)),
                       !.start_words = Incr(@, tokens[1]),
                       !.end_words = Incr(@, LastToken(tokens)),
                       !.transitions = BuildTransitions(@, tokens, 1)]
        ELSE c

\* One iteration of the loop of extract_phrases on the counters c (lines 68-83).
ExtractPhrase(c, text) ==
    LET tokens == word_tokenize(preprocess_text(text))
        c1 == [c EXCEPT !.lengths = Append(@, Len(tokens))]
    IN  IF tokens # <<>>
        THEN [c1 EXCEPT !.start_words = Incr(@, tokens[1]),
                        !.end_words = Incr(@, LastToken(tokens)),
                        !.transitions = BuildTransitions(@, tokens, 1)]
        ELSE c1

RECURSIVE extract_phrases(_, _)
extract_phrases(c, phrases) ==
    IF phrases = <<>> THEN c
    ELSE extract_phrases(ExtractPhrase(c, Head(phrases)), Tail(phrases))

\* Mutation: dropna() forgotten, a missing cell becomes the text "nan".
KeepNa(cells) == [i \in 1..Len(cells) |-> IF cells[i] = None THEN <<"n", "a", "n">> ELSE cells[i]]

\* df[col].dropna().astype(str).tolist()
DropNa(cells) == SelectSeq(cells, LAMBDA x : x # None)

\* Mutation: the counters of the column before are carried into the next.
CarriedCounters ==
    [transitions |-> transitions, start_words |-> start_words,
     end_words |-> end_words, lengths |-> lengths]

\* The counters extract_columns creates for each column (lines 39-42).
FreshCounters ==
    [transitions |-> <<>>, start_words |-> <<>>, end_words |-> <<>>, lengths |-> <<>>]

\* Lines 46-60: the column model built from the counters.
ColumnModel(column_index, c) ==
    [column_index |-> column_index,
     transitions  |-> [i \in 1..Len(c.transitions) |->
                          [k |-> c.transitions[i].k, v |-> normalize(c.transitions[i].v)]],
     start_words  |-> normalize(c.start_words),
     end_words    |-> normalize(c.end_words),
     lengths      |-> normalize(CounterOf(c.lengths))]

\* df.columns of a table read with header=None: 0, 1, ...
ColumnLabel(i) == i - 1

\* ------------------------------------------------------------- inputs

Cells ==
    { None,
      <<"!">>,
      <<"a", " ", "b">>,
      <<"b", "!", " ", " ", "a">>,
      <<"a", " ", "a", " ", "a">>,
      <<" ", "a", "!", "b">> }

NumColumns == {2}

Tables ==
    UNION { [1..n -> [1..r -> Cells]] : n \in NumColumns, r \in 1..MaxRows }

\* ------------------------------------------------------------- actions

IdleChoice ==
    /\ wc_items = <<>>
    /\ wc_weights = <<>>
    /\ wc_draw = 0
    /\ wc_result = [err |-> NoErr, val |-> None]
    /\ wc_pc = "idle"

IdleReplay ==
    /\ run_no = 0
    /\ tape = <<>>
    /\ pos = 1
    /\ order = <<>>
    /\ first_result = [err |-> NoErr, val |-> None]

IdleLoad ==
    /\ cache = <<>>
    /\ model_name = <<>>
    /\ model_data = <<>>
    /\ loaded = <<>>
    /\ lm_pc = <<>>

\* A JSON value that is no document.
NoDocument == [type |-> "null", items |-> <<>>]

IdleDoc ==
    /\ trainer = "none"
    /\ json_data = NoDocument
    /\ document = NoDocument
    /\ doc_pc = "idle"

\* The bucket has no object index.json.
NoIndex == [exists |-> FALSE, models |-> <<>>]

IdleIndex ==
    /\ index = NoIndex
    /\ index_data = <<>>
    /\ model_key = ""
    /\ ui_pc = "idle"
    /\ processed = {}
    /\ updates = 0

IdleProcessor ==
    /\ handler = "none"
    /\ bucket = {}
    /\ index_json = NoIndex
    /\ invocation = <<>>

IdleMcp ==
    /\ http_event = <<>>
    /\ body = <<>>
    /\ rpc_result = <<>>
    /\ http_response = <<>>
    /\ mcp_pc = "idle"

\* No Lambda handler is running.
IdleHandlers == IdleProcessor /\ IdleMcp

\* None of the functions modelled after generate_ideas is running.
IdleLater == IdleChoice /\ IdleReplay /\ IdleLoad /\ IdleDoc /\ IdleIndex /\ IdleHandlers

IdleTrain ==
    /\ df = <<>>
    /\ col = 1
    /\ transitions = <<>>
    /\ start_words = <<>>
    /\ end_words = <<>>
    /\ lengths = <<>>
    /\ markov_models = <<>>
    /\ train_pc = "idle"

IdlePhrase ==
    /\ model = NoModel
    /\ max_length = 0
    /\ target_length = 0
    /\ current_word = None
    /\ phrase = <<>>
    /\ attempts = 0
    /\ depth = 0
    /\ gp_result = None
    /\ gp_error = NoErr
    /\ gp_pc = "idle"

IdleIdeas ==
    /\ op = "none"
    /\ count = 0
    /\ template = <<>>
    /\ model_set = <<>>
    /\ ideas = <<>>
    /\ trial = 0
    /\ column = 1
    /\ row_phrases = <<>>
    /\ gi_error = NoErr
    /\ gi_pc = "idle"
    /\ phrase_log = <<>>

InitTrain ==
    /\ IdleLater
    /\ IdlePhrase
    /\ IdleIdeas
    /\ df \in Tables
    /\ col = 1
    /\ transitions = <<>>
    /\ start_words = <<>>
    /\ end_words = <<>>
    /\ lengths = <<>>
    /\ markov_models = <<>>
    /\ train_pc = "loop"

\* extract_columns, one iteration of `for col in df.columns` (lines 37-61).
ExtractColumn ==
    /\ train_pc = "loop"
    /\ col <= Len(df)
    /\ LET phrases == DropNa(df[col])
           c == extract_phrases(FreshCounters, phrases)
       IN  /\ transitions' = c.transitions
           /\ start_words' = c.start_words
           /\ end_words' = c.end_words
           /\ lengths' = c.lengths
           /\ markov_models' = Append(markov_models, ColumnModel(ColumnLabel(col), c))
    /\ col' = col + 1
    /\ UNCHANGED <<df, train_pc, phraseVars, ideaVars>>
    /\ UNCHANGED laterVars

\* extract_columns, line 63: return markov_models.
ReturnModels ==
    /\ train_pc = "loop"
    /\ col > Len(df)
    /\ train_pc' = "returned"
    /\ UNCHANGED <<df, col, transitions, start_words, end_words, lengths, markov_models,
                   phraseVars, ideaVars>>
    /\ UNCHANGED laterVars

NextTrain == ExtractColumn \/ ReturnModels

SpecTrain == InitTrain /\ [][NextTrain]_vars

\* ------------------------------------------------------------- generator

\* A call that returns val, or raises the exception err.
Ok(val) == [err |-> NoErr, val |-> val]

Raise(err) == [err |-> err, val |-> None]

\* max_attempts (line 225)
MaxAttempts == 1000

\* The values random.random() * R can take.
Draws == 0..(DrawResolution - 1)

\* list(d.values()): the weights of a distribution.  All values of one
\* distribution share their denominator, which cancels in every comparison
\* of weighted_random_choice, so the numerators are the weights.
Weights(d) == [i \in 1..Len(d) |-> d[i].v.num]

RECURSIVE SumTo(_, _)
SumTo(weights, i) == IF i = 0 THEN 0 ELSE weights[i] + SumTo(weights, i - 1)

\* Lines 147-149
CumulativeWeights(weights) == [i \in 1..Len(weights) |-> SumTo(weights, i)]

Min(S) == CHOOSE x \in S : \A y \in S : x <= y

\* weighted_random_choice with random.random() = r / DrawResolution.
weighted_random_choice(items, weights, r) ==
    IF items = <<>> \/ weights = <<>> THEN Raise("ValueError")
    ELSE LET cum == CumulativeWeights(weights)
             hits == {i \in 1..Len(cum) : r * cum[Len(cum)] <= cum[i] * DrawResolution}
         IN  IF hits = {} THEN Ok(items[Len(items)]) ELSE Ok(items[Min(hits)])

\* Line 213: max(int(k) for k in lengths.keys())
MaxLengthOf(lengths_prob) ==
    IF lengths_prob = <<>> THEN Raise("ValueError")
    ELSE IF \E i \in 1..Len(lengths_prob) : ~IsNumeral(lengths_prob[i].k)
         THEN Raise("ValueError")
         ELSE LET ks == {ParseInt(lengths_prob[i].k) : i \in 1..Len(lengths_prob)}
              IN  Ok(CHOOSE x \in ks : \A y \in ks : y <= x)

\* Mutation: the range starts at 1.
sample_phrase_length_from_one(max) ==
    IF max < 1 THEN {Raise("ValueError")} ELSE {Ok(t) : t \in 1..max}

\* random.randint(2, max_length): every value it can return.
sample_phrase_length(max) ==
    IF max < 2 THEN {Raise("ValueError")} ELSE {Ok(t) : t \in 2..max}

\* Mutation: an empty start_words gives the empty word instead of an error.
select_start_word_default(start_words_prob, r) ==
    IF start_words_prob = <<>> THEN Ok(<<>>)
    ELSE weighted_random_choice(Keys(start_words_prob), Weights(start_words_prob), r)

select_start_word(start_words_prob, r) ==
    weighted_random_choice(Keys(start_words_prob), Weights(start_words_prob), r)

is_end_word(word, end_words_prob) == Has(end_words_prob, word)

select_random_end_word(end_words_prob, r) ==
    weighted_random_choice(Keys(end_words_prob), Weights(end_words_prob), r)

\* Lines 220-223
Vocabulary(m) ==
    KeySet(m.transitions) \cup KeySet(m.end_words) \cup KeySet(m.start_words)

\* random.choice(list(vocabulary)) returning w, one of its words.
select_random_word(vocabulary, w) ==
    IF vocabulary = {} THEN Raise("IndexError") ELSE Ok(w)

\* The words random.choice can be asked to return.
Choices(vocabulary) == IF vocabulary = {} THEN {None} ELSE vocabulary

\* Mutation: the lookup is transitions.setdefault(key, {}), which enters a
\* missing key in the dict.
AfterSetDefault(d, key) == IF Has(d, key) THEN d ELSE Append(d, [k |-> key, v |-> <<>>])

\* The dict after d.get(key) (lines 178 and 250): get leaves the dict alone.
AfterGet(d, key) == d

\* select_next_word: jump is random_chance < 0.05, w the word random.choice
\* returns, r the draw of weighted_random_choice.
select_next_word(word, transitions_prob, vocabulary, jump, w, r) ==
    IF jump THEN select_random_word(vocabulary, w)
    ELSE LET next_words_prob ==
                 IF Has(transitions_prob, word) THEN Get(transitions_prob, word) ELSE <<>>
         IN  IF next_words_prob = <<>> THEN Ok(None)
             ELSE weighted_random_choice(Keys(next_words_prob), Weights(next_words_prob), r)

\* Mutation: every next word counts as no word.
FalsyAlways(word) == TRUE

\* `not next_word`: None or the empty string.
Falsy(word) == word = None \/ word = <<>>

\* Mutation: the walk restarts only once it is longer than max_length.
PastCeiling(tokens, max) == Len(tokens) > max

\* Line 244: len(phrase) >= max_length
ReachedCeiling(tokens, max) == Len(tokens) >= max

\* Mutation: the recursive call neither deepens the stack nor is ever refused.
RecurseInPlace(d) == Ok(d)

\* Line 245: the nested call generate_phrase(model) from a frame at depth d.
Recurse(d) == IF d + 1 > RecursionLimit THEN Raise("RecursionError") ELSE Ok(d + 1)

\* Mutation: a walk that does not stand on an end word is returned as it is
\* when none of its successors is an end word.
EnsureEndWordSuccessorsOnly(m, word, tokens, r) ==
    IF is_end_word(word, m.end_words) THEN Ok([phrase |-> tokens, word |-> word])
    ELSE LET current_transitions ==
                 IF Has(m.transitions, word) THEN Get(m.transitions, word) ELSE <<>>
             possible_end_words ==
                 SelectSeq(Keys(current_transitions),
                           LAMBDA x : is_end_word(x, m.end_words))
         IN  IF possible_end_words # <<>>
             THEN LET c == weighted_random_choice(
                               possible_end_words,
                               [i \in 1..Len(possible_end_words) |->
                                   Get(current_transitions, possible_end_words[i]).num],
                               r)
                  IN  Ok([phrase |-> Append(tokens, c.val), word |-> c.val])
             ELSE Ok([phrase |-> tokens, word |-> word])

\* Mutation: every successor counts as a possible end word.
AllSuccessors(current_transitions, end_words_prob) == Keys(current_transitions)

\* Lines 251-252: the successors that are end words, in their order.
PossibleEndWords(current_transitions, end_words_prob) ==
    SelectSeq(Keys(current_transitions), LAMBDA x : is_end_word(x, end_words_prob))

\* Lines 247-261: ensure the last word is an end word.
EnsureEndWord(m, word, tokens, r) ==
    IF is_end_word(word, m.end_words) THEN Ok([phrase |-> tokens, word |-> word])
    ELSE LET current_transitions ==
                 IF Has(m.transitions, word) THEN Get(m.transitions, word) ELSE <<>>
             possible_end_words == PossibleEndWords(current_transitions, m.end_words)
         IN  IF possible_end_words # <<>>
             THEN LET c == weighted_random_choice(
                               possible_end_words,
                               [i \in 1..Len(possible_end_words) |->
                                   Get(current_transitions, possible_end_words[i]).num],
                               r)
                  IN  Ok([phrase |-> Append(tokens, c.val), word |-> c.val])
             ELSE LET e == select_random_end_word(m.end_words, r)
                  IN  IF e.err # NoErr THEN e
                      ELSE Ok([phrase |-> Append(tokens, e.val), word |-> word])

\* json.dump then json.load of a Column Model: the integer keys of lengths
\* come back as their decimal strings.
json_round_trip(m) ==
    [m EXCEPT !.lengths = [i \in 1..Len(m.lengths) |->
                              [k |-> ToDigits(m.lengths[i].k), v |-> m.lengths[i].v]]]

\* ------------------------------------------------------------- models

A == <<"a">>

B == <<"b">>

\* A distribution over the keys, all equally likely.
Uniform(keys) ==
    [i \in 1..Len(keys) |-> [k |-> keys[i], v |-> [num |-> 1, den |-> Len(keys)]]]

ArbTransitions ==
    { <<>>,
      <<[k |-> A, v |-> <<>>]>>,
      <<[k |-> A, v |-> Uniform(<<A>>)]>>,
      <<[k |-> A, v |-> Uniform(<<B>>)]>>,
      <<[k |-> A, v |-> Uniform(<<A, B>>)]>>,
      <<[k |-> A, v |-> Uniform(<<B>>)], [k |-> B, v |-> Uniform(<<A>>)]>>,
      <<[k |-> A, v |-> Uniform(<< <<>> >>)]>>,
      <<[k |-> A, v |-> Uniform(<< <<>>, B >>)]>> }

ArbStarts == {<<>>, <<A>>, <<A, B>>}

ArbEnds == {<<>>, <<B>>, <<A, B>>}

ArbLengths ==
    { <<>>, << <<"0">> >>, << <<"1">> >>, << <<"2">> >>, << <<"3">> >>,
      << <<"2">>, <<"3">> >>, << <<"x">> >> }

\* Column Models as a JSON document may hold them, trained or not.
ArbitraryModels ==
    { [column_index |-> 0, transitions |-> t, start_words |-> Uniform(s),
       end_words |-> Uniform(e), lengths |-> Uniform(l)] :
          t \in ArbTransitions, s \in ArbStarts, e \in ArbEnds, l \in ArbLengths }

\* The Column Models the trainer writes for the columns of the bounded tables.
TrainedModels ==
    { json_round_trip(ColumnModel(0, extract_phrases(FreshCounters, DropNa(cells)))) :
          cells \in UNION {[1..r -> Cells] : r \in 1..MaxRows} }

GenModels == ArbitraryModels \cup TrainedModels

\* ------------------------------------------------------------- generate_phrase

\* generate_phrase raises err.
PhraseFails(err) ==
    /\ gp_pc' = "failed"
    /\ gp_error' = err
    /\ UNCHANGED <<model, max_length, target_length, current_word, phrase, attempts,
                   depth, gp_result>>

\* The values random.randint(2, max_length) can return for the model, or the
\* exception raised before it is reached.
Targets(m) ==
    LET ml == MaxLengthOf(m.lengths)
    IN  IF ml.err # NoErr THEN {ml} ELSE sample_phrase_length(ml.val)

\* Lines 207-226 with target t, an element of Targets(model), and r the draw
\* of select_start_word.
EnterFrame(t, r) ==
    LET ml == MaxLengthOf(model.lengths)
    IN  IF ml.err # NoErr THEN PhraseFails(ml.err)
        ELSE IF t.err # NoErr THEN PhraseFails(t.err)
        ELSE LET sw == select_start_word(model.start_words, r)
             IN  IF sw.err # NoErr THEN PhraseFails(sw.err)
                 ELSE /\ max_length' = ml.val
                      /\ target_length' = t.val
                      /\ current_word' = sw.val
                      /\ phrase' = <<sw.val>>
                      /\ attempts' = 0
                      /\ gp_pc' = "loop"
                      /\ UNCHANGED <<model, depth, gp_result, gp_error>>

\* Lines 207-226: the lengths, the target, the start word.
EnterPhrase ==
    /\ gp_pc = "call"
    /\ \E t \in Targets(model), r \in Draws : EnterFrame(t, r)
    /\ UNCHANGED <<trainVars, ideaVars>>
    /\ UNCHANGED laterVars

\* Lines 228-245 with the draws of select_next_word: jump is
\* random_chance < 0.05, w the word random.choice returns, r the draw of
\* weighted_random_choice.
WalkFrame(jump, w, r) ==
    IF attempts >= MaxAttempts
    THEN /\ gp_pc' = "post"
         /\ UNCHANGED <<model, max_length, target_length, current_word, phrase,
                        attempts, depth, gp_result, gp_error>>
    ELSE LET nw == select_next_word(current_word, model.transitions,
                                    Vocabulary(model), jump, w, r)
             grown == Append(phrase, nw.val)
             looked == IF jump THEN model
                       ELSE [model EXCEPT
                               !.transitions = AfterGet(model.transitions, current_word)]
         IN  IF nw.err # NoErr THEN PhraseFails(nw.err)
             ELSE IF Falsy(nw.val)
             THEN /\ attempts' = attempts + 1
                  /\ gp_pc' = "post"
                  /\ model' = looked
                  /\ UNCHANGED <<max_length, target_length, current_word,
                                 phrase, depth, gp_result, gp_error>>
             ELSE IF Len(grown) >= target_length /\ is_end_word(nw.val, model.end_words)
             THEN /\ attempts' = attempts + 1
                  /\ phrase' = grown
                  /\ current_word' = nw.val
                  /\ gp_pc' = "post"
                  /\ model' = looked
                  /\ UNCHANGED <<max_length, target_length, depth,
                                 gp_result, gp_error>>
             ELSE IF ReachedCeiling(grown, max_length)
             THEN LET call == Recurse(depth)
                  IN  IF call.err # NoErr THEN PhraseFails(call.err)
                      ELSE /\ depth' = call.val
                           /\ gp_pc' = "call"
                           /\ max_length' = 0
                           /\ target_length' = 0
                           /\ current_word' = None
                           /\ phrase' = <<>>
                           /\ attempts' = 0
                           /\ model' = looked
                           /\ UNCHANGED <<gp_result, gp_error>>
             ELSE /\ attempts' = attempts + 1
                  /\ phrase' = grown
                  /\ current_word' = nw.val
                  /\ model' = looked
                  /\ UNCHANGED <<max_length, target_length, depth,
                                 gp_result, gp_error, gp_pc>>

\* Lines 228-245: the test of the while loop and one run of its body.
WalkStep ==
    /\ gp_pc = "loop"
    /\ \E jump \in BOOLEAN, w \in Choices(Vocabulary(model)), r \in Draws :
          WalkFrame(jump, w, r)
    /\ UNCHANGED <<trainVars, ideaVars>>
    /\ UNCHANGED laterVars

\* Lines 247-263 with r the draw of the weighted choice of the repair.
FinishFrame(r) ==
    LET fixed == EnsureEndWord(model, current_word, phrase, r)
    IN  IF fixed.err # NoErr THEN PhraseFails(fixed.err)
        ELSE /\ phrase' = fixed.val.phrase
             /\ current_word' = fixed.val.word
             /\ gp_result' = StrJoin(<<" ">>, fixed.val.phrase)
             /\ gp_pc' = "done"
             /\ model' = IF is_end_word(current_word, model.end_words) THEN model
                         ELSE [model EXCEPT
                                 !.transitions = AfterGet(model.transitions, current_word)]
             /\ UNCHANGED <<max_length, target_length, attempts, depth, gp_error>>

\* Lines 247-263: the repair of the last word and the return.
FinishPhrase ==
    /\ gp_pc = "post"
    /\ \E r \in Draws : FinishFrame(r)
    /\ UNCHANGED <<trainVars, ideaVars>>
    /\ UNCHANGED laterVars

InitPhrase ==
    /\ IdleLater
    /\ IdleTrain
    /\ IdleIdeas
    /\ model \in GenModels
    /\ max_length = 0
    /\ target_length = 0
    /\ current_word = None
    /\ phrase = <<>>
    /\ attempts = 0
    /\ depth = 0
    /\ gp_result = None
    /\ gp_error = NoErr
    /\ gp_pc = "call"

NextPhrase == EnterPhrase \/ WalkStep \/ FinishPhrase

SpecPhrase == InitPhrase /\ [][NextPhrase]_vars

\* generate_phrase runs to its end: a sequential call is never suspended.
FairSpecPhrase == SpecPhrase /\ WF_vars(NextPhrase)

\* ------------------------------------------------------------- generate_phrase without noise

\* The loop body when random_chance >= 0.05 in every call of select_next_word.
QuietWalkStep ==
    /\ gp_pc = "loop"
    /\ \E r \in Draws : WalkFrame(FALSE, None, r)
    /\ UNCHANGED <<trainVars, ideaVars>>
    /\ UNCHANGED laterVars

NextQuiet == EnterPhrase \/ QuietWalkStep \/ FinishPhrase

SpecQuiet == InitPhrase /\ [][NextQuiet]_vars

\* ------------------------------------------------------------- two runs, one stream

\* The orders list(vocabulary) can have: a set of strings iterates in the
\* order of the hashes of its members, which differ from one interpreter
\* to the next (str hashes are salted per process).
Orders(vocabulary) ==
    {o \in [1..Cardinality(vocabulary) -> vocabulary] :
        \A i, j \in 1..Cardinality(vocabulary) : o[i] = o[j] => i = j}

\* random.choice(words): words[k] for the index k the stream gives.
ChoiceAt(words, k) == IF words = <<>> THEN None ELSE words[k + 1]

\* The indices random.choice can draw.
Indices(words) == IF words = <<>> THEN {0} ELSE 0..(Len(words) - 1)

\* The draws one step consumes: the target of randint, the noise test, the
\* index of random.choice and the draw of weighted_random_choice.  A step
\* leaves the fields it does not consume at their first value.
EnterDraws ==
    {[t |-> t, jump |-> FALSE, k |-> 0, r |-> r] : t \in Targets(model), r \in Draws}

WalkDraws ==
    {[t |-> Ok(0), jump |-> TRUE, k |-> k, r |-> 0] : k \in Indices(order)}
        \cup {[t |-> Ok(0), jump |-> FALSE, k |-> 0, r |-> r] : r \in Draws}

FinishDraws ==
    {[t |-> Ok(0), jump |-> FALSE, k |-> 0, r |-> r] : r \in Draws}

\* The step takes the draw d: the first run takes any draw and writes it on
\* the tape, the second run takes the next draw of the tape.
Consume(d) ==
    IF run_no = 1
    THEN /\ Len(tape) < MaxTape
         /\ tape' = Append(tape, d)
         /\ pos' = pos
    ELSE /\ pos <= Len(tape)
         /\ d = tape[pos]
         /\ pos' = pos + 1
         /\ tape' = tape

\* The Column Models of the two runs: trained, with two or three words.
ReplayModels ==
    { json_round_trip(ColumnModel(0, extract_phrases(FreshCounters, cells))) :
          cells \in { << <<"a", " ", "b">> >>,
                      << <<"b">>, <<"a", " ", "b">> >>,
                      << <<"a", " ", "n">>, <<"n", " ", "b", " ", "a">> >> } }

InitReplay ==
    /\ IdleTrain
    /\ IdleIdeas
    /\ IdleChoice
    /\ IdleLoad
    /\ IdleDoc
    /\ IdleIndex
    /\ IdleHandlers
    /\ model \in ReplayModels
    /\ max_length = 0
    /\ target_length = 0
    /\ current_word = None
    /\ phrase = <<>>
    /\ attempts = 0
    /\ depth = 0
    /\ gp_result = None
    /\ gp_error = NoErr
    /\ gp_pc = "call"
    /\ run_no = 1
    /\ tape = <<>>
    /\ pos = 1
    /\ order \in Orders(Vocabulary(model))
    /\ first_result = [err |-> NoErr, val |-> None]

ReplayEnter ==
    /\ gp_pc = "call"
    /\ \E d \in EnterDraws : EnterFrame(d.t, d.r) /\ Consume(d)
    /\ UNCHANGED <<run_no, order, first_result>>
    /\ UNCHANGED exceptReplay

ReplayWalk ==
    /\ gp_pc = "loop"
    /\ \E d \in WalkDraws : WalkFrame(d.jump, ChoiceAt(order, d.k), d.r) /\ Consume(d)
    /\ UNCHANGED <<run_no, order, first_result>>
    /\ UNCHANGED exceptReplay

ReplayFinish ==
    /\ gp_pc = "post"
    /\ \E d \in FinishDraws : FinishFrame(d.r) /\ Consume(d)
    /\ UNCHANGED <<run_no, order, first_result>>
    /\ UNCHANGED exceptReplay

\* The first run is over; generate_phrase is called again on the same model
\* in an interpreter of its own, its random generator seeded as before.
SecondRun ==
    /\ run_no = 1
    /\ gp_pc \in {"done", "failed"}
    /\ first_result' = [err |-> gp_error, val |-> gp_result]
    /\ run_no' = 2
    /\ pos' = 1
    /\ order' \in Orders(Vocabulary(model))
    /\ max_length' = 0
    /\ target_length' = 0
    /\ current_word' = None
    /\ phrase' = <<>>
    /\ attempts' = 0
    /\ depth' = 0
    /\ gp_result' = None
    /\ gp_error' = NoErr
    /\ gp_pc' = "call"
    /\ UNCHANGED <<model, tape>>
    /\ UNCHANGED exceptReplay

NextReplay == ReplayEnter \/ ReplayWalk \/ ReplayFinish \/ SecondRun

SpecReplay == InitReplay /\ [][NextReplay]_vars

\* ------------------------------------------------------------- weighted_random_choice

\* The item lists: the first n of "a", "b", "n".
ItemLists == {SubSeq(<<A, B, <<"n">>>>, 1, n) : n \in 0..MaxItems}

\* One call weighted_random_choice(items, weights), random.random() being
\* wc_draw / DrawResolution, a value of [0.0, 1.0).
InitChoice ==
    /\ IdleTrain
    /\ IdlePhrase
    /\ IdleIdeas
    /\ IdleReplay
    /\ IdleLoad
    /\ IdleDoc
    /\ IdleIndex
    /\ IdleHandlers
    /\ wc_items \in ItemLists
    /\ wc_weights \in [1..Len(wc_items) -> 0..MaxWeight]
    /\ wc_draw \in Draws
    /\ wc_result = [err |-> NoErr, val |-> None]
    /\ wc_pc = "call"

\* Lines 142-156.
Choose ==
    /\ wc_pc = "call"
    /\ wc_result' = weighted_random_choice(wc_items, wc_weights, wc_draw)
    /\ wc_pc' = "done"
    /\ UNCHANGED <<wc_items, wc_weights, wc_draw>>
    /\ UNCHANGED exceptChoice

NextChoice == Choose

SpecChoice == InitChoice /\ [][NextChoice]_vars

\* ------------------------------------------------------------- templates

\* The longest prefix of text made of digits.
RECURSIVE DigitRun(_)
DigitRun(text) ==
    IF text # <<>> /\ IsDigit(Head(text)) THEN <<Head(text)>> \o DigitRun(Tail(text))
    ELSE <<>>

\* re.findall(r'\$(\d+)', text): the digit runs that follow a "$".
RECURSIVE FindPlaceholders(_)
FindPlaceholders(text) ==
    IF text = <<>> THEN <<>>
    ELSE IF Head(text) = "$" /\ DigitRun(Tail(text)) # <<>>
         THEN LET run == DigitRun(Tail(text))
              IN  <<run>> \o FindPlaceholders(SubSeq(text, 2 + Len(run), Len(text)))
         ELSE FindPlaceholders(Tail(text))

\* text.replace(old, new), old not empty.
RECURSIVE Replace(_, _, _)
Replace(text, old, new) ==
    IF Len(text) < Len(old) THEN text
    ELSE IF SubSeq(text, 1, Len(old)) = old
         THEN new \o Replace(SubSeq(text, Len(old) + 1, Len(text)), old, new)
         ELSE <<Head(text)>> \o Replace(Tail(text), old, new)

\* Lines 311-314: the placeholders $1, $2, ... replaced in turn, from phrase i on.
RECURSIVE FillFrom(_, _, _)
FillFrom(filled_template, generated_phrases, i) ==
    IF i > Len(generated_phrases) THEN filled_template
    ELSE FillFrom(Replace(filled_template, <<"$">> \o ToDigits(i), generated_phrases[i]),
                  generated_phrases, i + 1)

Fill(text, generated_phrases) == FillFrom(text, generated_phrases, 1)

\* Mutation: the lowest placeholder number instead of the highest.
MinPlaceholder(placeholders) ==
    LET ns == {ParseInt(placeholders[i]) : i \in 1..Len(placeholders)}
    IN  CHOOSE x \in ns : \A y \in ns : x <= y

\* Line 299: max(int(p) for p in placeholders)
MaxPlaceholder(placeholders) ==
    LET ns == {ParseInt(placeholders[i]) : i \in 1..Len(placeholders)}
    IN  CHOOSE x \in ns : \A y \in ns : y <= x

\* Mutation: the phrases of a trial joined without the separator.
JoinIdeaNoSpace(phrases) == StrJoin(<<>>, phrases)

\* Line 280: idea = " ".join(row_phrases)
JoinIdea(phrases) == StrJoin(<<" ">>, phrases)

\* ------------------------------------------------------------- requests

\* The bounds on count the tools declare (lambda_handler.py, inputSchema).
MinCount == 1

MaxCount == 50

\* The Model Set the trainer writes for a table.
ModelSetOf(table) ==
    [j \in 1..Len(table) |->
        json_round_trip(ColumnModel(ColumnLabel(j),
                                    extract_phrases(FreshCounters, DropNa(table[j]))))]

\* A Column Model without start words.
DegenerateModel ==
    [column_index |-> 1, transitions |-> <<>>, start_words |-> <<>>,
     end_words |-> Uniform(<<B>>), lengths |-> Uniform(<< <<"2">> >>)]

\* The number of columns of a table wide enough for a two-digit placeholder.
WideColumns == 10

\* The Model Set of a one-row table of WideColumns columns: "a a" in the
\* first column, "b b" in the last and "n n" in between.
WideModelSet ==
    ModelSetOf([j \in 1..WideColumns |->
                   << IF j = 1 THEN <<"a", " ", "a">>
                      ELSE IF j = WideColumns THEN <<"b", " ", "b">>
                      ELSE <<"n", " ", "n">> >>])

\* The templates tried on the wide Model Set.
WideTemplates ==
    { <<"$", "1", "0">>,
      <<"$", "1", "0", " ", "$", "1">> }

\* The Model Sets load_model returns: trained ones, the empty document, and
\* a document with a column that cannot generate.
ModelSets ==
    { <<>>,
      ModelSetOf(<< <<<<"a", " ", "b">>>> >>),
      ModelSetOf(<< <<<<"a", " ", "b">>>>, <<<<"b">>, <<"b", " ", "a">>>> >>),
      ModelSetOf(<< <<<<"b">>, <<"a", " ", "b">>>>, <<<<"a", " ", "a", " ", "a">>>> >>),
      <<ModelSetOf(<< <<<<"b">>>> >>)[1], DegenerateModel>>,
      WideModelSet }

TemplateChars == {"$", "0", "1", "2", "x"}

\* The templates of at most MaxTemplateLen characters, and longer ones.
Templates ==
    UNION {[1..n -> TemplateChars] : n \in 0..MaxTemplateLen}
        \cup { <<"x", " ", "$", "1", " ", "$", "2">>,
               <<"$", "2", "$", "1", "$", "2">>,
               <<"$", "0", "1">> }
        \cup WideTemplates

\* The calls: every count up to MaxTrials on every Model Set, the counts
\* around MaxCount on the empty Model Set, and one trial of the wide templates
\* on the wide Model Set.
Calls ==
    { c \in [op : {"generate_ideas", "generate_with_template"},
             count : (0..MaxTrials) \cup {MaxCount, MaxCount + 1},
             template : Templates,
             model_set : ModelSets] :
        /\ c.op = "generate_ideas" => c.template = <<>>
        /\ c.count > MaxTrials => c.model_set = <<>> /\ Len(c.template) <= 2
        /\ c.model_set = WideModelSet =>
              /\ c.op = "generate_with_template"
              /\ c.template \in WideTemplates
              /\ c.count = 1 }

\* ------------------------------------------------------------- generate_ideas

\* The function raises: `except Exception as e: raise Exception(...)`.
IdeasFail ==
    /\ gi_pc' = "raised"
    /\ gi_error' = "Exception"
    /\ UNCHANGED <<op, count, template, ideas, trial, column, row_phrases, phrase_log>>

\* generate_ideas, lines 268-270.
BeginIdeas ==
    /\ gi_pc = "start"
    /\ op = "generate_ideas"
    /\ ideas' = <<>>
    /\ gi_pc' = "trial"
    /\ UNCHANGED <<op, count, template, model_set, trial, column, row_phrases,
                   gi_error, phrase_log>>
    /\ UNCHANGED <<trainVars, phraseVars>>
    /\ UNCHANGED laterVars

\* generate_with_template, lines 290-301.
BeginTemplate ==
    /\ gi_pc = "start"
    /\ op = "generate_with_template"
    /\ LET placeholders == FindPlaceholders(template)
       IN  IF placeholders = <<>> THEN IdeasFail /\ UNCHANGED model_set
           ELSE IF MaxPlaceholder(placeholders) > Len(model_set)
           THEN IdeasFail /\ UNCHANGED model_set
           ELSE /\ ideas' = <<>>
                /\ gi_pc' = "trial"
                /\ UNCHANGED <<op, count, template, model_set, trial, column,
                               row_phrases, gi_error, phrase_log>>
    /\ UNCHANGED <<trainVars, phraseVars>>
    /\ UNCHANGED laterVars

\* Lines 275-276 and 306-307: phrase = generate_phrase(model), the call.  The
\* model of the frame is the very object of the list markov_models.
CallGeneratePhrase ==
    /\ gi_pc = "trial"
    /\ trial < count
    /\ column <= Len(model_set)
    /\ gp_pc = "idle"
    /\ model' = model_set[column]
    /\ gp_pc' = "call"
    /\ gi_pc' = "await"
    /\ UNCHANGED <<max_length, target_length, current_word, phrase, attempts, depth,
                   gp_result, gp_error>>
    /\ UNCHANGED <<op, count, template, model_set, ideas, trial, column, row_phrases,
                   gi_error, phrase_log>>
    /\ UNCHANGED trainVars
    /\ UNCHANGED laterVars

\* The frame of generate_phrase is gone.
PhraseFrameDropped ==
    /\ model' = NoModel
    /\ max_length' = 0
    /\ target_length' = 0
    /\ current_word' = None
    /\ phrase' = <<>>
    /\ attempts' = 0
    /\ depth' = 0
    /\ gp_result' = None
    /\ gp_error' = NoErr
    /\ gp_pc' = "idle"

\* Lines 276-277 and 307-308: generate_phrase returned, the phrase is appended;
\* the list holds the object as the call left it.
PhraseReturned ==
    /\ gi_pc = "await"
    /\ gp_pc = "done"
    /\ row_phrases' = Append(row_phrases, gp_result)
    /\ phrase_log' = Append(phrase_log,
                            [trial |-> trial, column |-> column, phrase |-> gp_result])
    /\ column' = column + 1
    /\ gi_pc' = "trial"
    /\ model_set' = [model_set EXCEPT ![column] = model]
    /\ PhraseFrameDropped
    /\ UNCHANGED <<op, count, template, ideas, trial, gi_error>>
    /\ UNCHANGED trainVars
    /\ UNCHANGED laterVars

\* Lines 284-285 and 319-320: generate_phrase raised.
PhraseRaised ==
    /\ gi_pc = "await"
    /\ gp_pc = "failed"
    /\ IdeasFail
    /\ model_set' = [model_set EXCEPT ![column] = model]
    /\ PhraseFrameDropped
    /\ UNCHANGED trainVars
    /\ UNCHANGED laterVars

\* generate_ideas, lines 279-281: the idea of the trial.
AppendIdea ==
    /\ gi_pc = "trial"
    /\ op = "generate_ideas"
    /\ trial < count
    /\ column > Len(model_set)
    /\ ideas' = Append(ideas, JoinIdea(row_phrases))
    /\ trial' = trial + 1
    /\ column' = 1
    /\ row_phrases' = <<>>
    /\ UNCHANGED <<op, count, template, model_set, gi_error, gi_pc, phrase_log>>
    /\ UNCHANGED <<trainVars, phraseVars>>
    /\ UNCHANGED laterVars

\* generate_with_template, lines 310-316: the filled template of the trial.
AppendFilledTemplate ==
    /\ gi_pc = "trial"
    /\ op = "generate_with_template"
    /\ trial < count
    /\ column > Len(model_set)
    /\ ideas' = Append(ideas, Fill(template, row_phrases))
    /\ trial' = trial + 1
    /\ column' = 1
    /\ row_phrases' = <<>>
    /\ UNCHANGED <<op, count, template, model_set, gi_error, gi_pc, phrase_log>>
    /\ UNCHANGED <<trainVars, phraseVars>>
    /\ UNCHANGED laterVars

\* Lines 283 and 318: return ideas.
ReturnIdeas ==
    /\ gi_pc = "trial"
    /\ trial >= count
    /\ gi_pc' = "returned"
    /\ UNCHANGED <<op, count, template, model_set, ideas, trial, column, row_phrases,
                   gi_error, phrase_log>>
    /\ UNCHANGED <<trainVars, phraseVars>>
    /\ UNCHANGED laterVars

InitIdeas ==
    /\ IdleLater
    /\ IdleTrain
    /\ IdlePhrase
    /\ \E c \in Calls :
          /\ op = c.op
          /\ count = c.count
          /\ template = c.template
          /\ model_set = c.model_set
    /\ ideas = <<>>
    /\ trial = 0
    /\ column = 1
    /\ row_phrases = <<>>
    /\ gi_error = NoErr
    /\ gi_pc = "start"
    /\ phrase_log = <<>>

NextIdeas ==
    \/ BeginIdeas
    \/ BeginTemplate
    \/ CallGeneratePhrase
    \/ EnterPhrase
    \/ WalkStep
    \/ FinishPhrase
    \/ PhraseReturned
    \/ PhraseRaised
    \/ AppendIdea
    \/ AppendFilledTemplate
    \/ ReturnIdeas

SpecIdeas == InitIdeas /\ [][NextIdeas]_vars

\* ------------------------------------------------------------- load_model

\* Model names, as the components of their paths: a/x.json, b/x.json, a/y.json.
ModelNames == { <<"a", "x.json">>, <<"b", "x.json">>, <<"a", "y.json">> }

\* Path(model_name).name (line 65): the last component.
FileName(name) == name[Len(name)]

\* get_model_cache_path: CACHE_DIR / filename.
get_model_cache_path(name) == FileName(name)

\* The document the web endpoint serves under base_url/model_name.
Remote(name) ==
    IF name = <<"a", "x.json">> THEN ModelSetOf(<< <<<<"a", " ", "b">>>> >>)
    ELSE IF name = <<"b", "x.json">> THEN ModelSetOf(<< <<<<"b", " ", "a">>>> >>)
    ELSE ModelSetOf(<< <<<<"a", " ", "a", " ", "a">>>> >>)

\* The content of a cache file: none, a document, or bytes json.load rejects
\* (a file opened for writing and not yet written, or writes that crossed).
Absent == [state |-> "absent", doc |-> <<>>]

Partial == [state |-> "partial", doc |-> <<>>]

Whole(doc) == [state |-> "whole", doc |-> doc]

CacheFiles == {get_model_cache_path(name) : name \in ModelNames}

Procs == 1..Invocations

InitLoad ==
    /\ IdleTrain
    /\ IdlePhrase
    /\ IdleIdeas
    /\ IdleChoice
    /\ IdleReplay
    /\ IdleDoc
    /\ IdleIndex
    /\ IdleHandlers
    /\ cache = [f \in CacheFiles |-> Absent]
    /\ model_name \in [Procs -> ModelNames]
    /\ model_data = [p \in Procs |-> <<>>]
    /\ loaded = [p \in Procs |-> <<>>]
    /\ lm_pc = [p \in Procs |-> "start"]

\* Lines 117-124: the cache file exists and json.load accepts it: return;
\* no file, or a file json.load rejects: go on to the download.
TryCache(p) ==
    /\ lm_pc[p] = "start"
    /\ LET file == cache[get_model_cache_path(model_name[p])]
       IN  IF file.state = "whole"
           THEN /\ loaded' = [loaded EXCEPT ![p] = file.doc]
                /\ lm_pc' = [lm_pc EXCEPT ![p] = "returned"]
           ELSE /\ lm_pc' = [lm_pc EXCEPT ![p] = "fetch"]
                /\ UNCHANGED loaded
    /\ UNCHANGED <<cache, model_name, model_data>>
    /\ UNCHANGED exceptLoad

\* Lines 127-131: model_data = await fetch_url(model_url).
Download(p) ==
    /\ lm_pc[p] = "fetch"
    /\ model_data' = [model_data EXCEPT ![p] = Remote(model_name[p])]
    /\ lm_pc' = [lm_pc EXCEPT ![p] = "open"]
    /\ UNCHANGED <<cache, model_name, loaded>>
    /\ UNCHANGED exceptLoad

\* Lines 138-139: the fetch failed.
DownloadFails(p) ==
    /\ lm_pc[p] = "fetch"
    /\ lm_pc' = [lm_pc EXCEPT ![p] = "raised"]
    /\ UNCHANGED <<cache, model_name, model_data, loaded>>
    /\ UNCHANGED exceptLoad

\* Line 134: open(cache_path, 'w') truncates the file.
OpenCache(p) ==
    /\ lm_pc[p] = "open"
    /\ cache' = [cache EXCEPT ![get_model_cache_path(model_name[p])] = Partial]
    /\ lm_pc' = [lm_pc EXCEPT ![p] = "dump"]
    /\ UNCHANGED <<model_name, model_data, loaded>>
    /\ UNCHANGED exceptLoad

\* Line 135: json.dump(model_data, f) and the close of the file.  While
\* another invocation holds the same file open for writing with another
\* document, the bytes of the two may cross.
DumpCache(p) ==
    /\ lm_pc[p] = "dump"
    /\ LET path == get_model_cache_path(model_name[p])
           crossing == \E q \in Procs \ {p} :
                          /\ lm_pc[q] = "dump"
                          /\ get_model_cache_path(model_name[q]) = path
                          /\ model_data[q] # model_data[p]
       IN  \E file \in {Whole(model_data[p])} \cup (IF crossing THEN {Partial} ELSE {}) :
              cache' = [cache EXCEPT ![path] = file]
    /\ lm_pc' = [lm_pc EXCEPT ![p] = "written"]
    /\ UNCHANGED <<model_name, model_data, loaded>>
    /\ UNCHANGED exceptLoad

\* Line 137: return model_data.
ReturnLoaded(p) ==
    /\ lm_pc[p] = "written"
    /\ loaded' = [loaded EXCEPT ![p] = model_data[p]]
    /\ lm_pc' = [lm_pc EXCEPT ![p] = "returned"]
    /\ UNCHANGED <<cache, model_name, model_data>>
    /\ UNCHANGED exceptLoad

NextLoad ==
    \E p \in Procs :
        \/ TryCache(p)
        \/ Download(p)
        \/ DownloadFails(p)
        \/ OpenCache(p)
        \/ DumpCache(p)
        \/ ReturnLoaded(p)

SpecLoad == InitLoad /\ [][NextLoad]_vars

\* ------------------------------------------------------------- the trainers' documents

\* JSON values: a list of items, or an object with its members in order.
JsonList(items) == [type |-> "list", items |-> items]

JsonObject(members) == [type |-> "dict", items |-> members]

\* json.dump / json.dumps of the list extract_columns returned.
DumpModels(models) == [j \in 1..Len(models) |-> json_round_trip(models[j])]

\* The name of the CSV file of the table.
CsvKey == <<"t", ".", "c", "s", "v">>

\* len(df): the rows of the table.
RowCount(table) == IF table = <<>> THEN 0 ELSE Len(table[1])

\* Both modules train with the same extract_columns (model_processor.py
\* lines 26-95 repeat generate_markov_models.py lines 17-63).
InitDocument ==
    /\ IdlePhrase
    /\ IdleIdeas
    /\ IdleChoice
    /\ IdleReplay
    /\ IdleLoad
    /\ IdleIndex
    /\ IdleHandlers
    /\ df \in Tables
    /\ col = 1
    /\ transitions = <<>>
    /\ start_words = <<>>
    /\ end_words = <<>>
    /\ lengths = <<>>
    /\ markov_models = <<>>
    /\ train_pc = "loop"
    /\ trainer \in {"generate_markov_models", "model_processor"}
    /\ json_data = NoDocument
    /\ document = NoDocument
    /\ doc_pc = "train"

\* generate_markov_models.generate, lines 97-100: json.dump(markov_models, f).
WriteModels ==
    /\ trainer = "generate_markov_models"
    /\ train_pc = "returned"
    /\ doc_pc = "train"
    /\ document' = JsonList(DumpModels(markov_models))
    /\ doc_pc' = "written"
    /\ UNCHANGED <<trainer, json_data>>
    /\ UNCHANGED <<trainVars, exceptDoc>>

\* model_processor.process_csv, lines 166-177: the models wrapped with metadata.
ProcessCsv ==
    /\ trainer = "model_processor"
    /\ train_pc = "returned"
    /\ doc_pc = "train"
    /\ json_data' =
          JsonObject(<< [k |-> "metadata",
                         v |-> [source_file |-> CsvKey,
                                column_count |-> Len(df),
                                row_count |-> RowCount(df),
                                model_type |-> "markov_chain",
                                generated_at |-> "unknown"]],
                        [k |-> "markov_models", v |-> markov_models] >>)
    /\ doc_pc' = "processed"
    /\ UNCHANGED <<trainer, document>>
    /\ UNCHANGED <<trainVars, exceptDoc>>

\* model_processor.upload_json, lines 187-192: Body = json.dumps(data).
UploadJson ==
    /\ doc_pc = "processed"
    /\ document' = JsonObject(<< json_data.items[1],
                                 [k |-> "markov_models",
                                  v |-> DumpModels(json_data.items[2].v)] >>)
    /\ doc_pc' = "written"
    /\ UNCHANGED <<trainer, json_data>>
    /\ UNCHANGED <<trainVars, exceptDoc>>

NextDocument ==
    \/ ExtractColumn
    \/ ReturnModels
    \/ WriteModels
    \/ ProcessCsv
    \/ UploadJson

SpecDocument == InitDocument /\ [][NextDocument]_vars

\* ------------------------------------------------------------- lambda_function.update_index

\* The model keys process_model returns.
ModelKeys == {"a.json", "b.json"}

\* The object index.json with the list index_data['models'].
IndexOf(models) == [exists |-> TRUE, models |-> models]

\* Mutation: the key is appended whether the list has it or not.
AppendKey(models, key) == Append(models, key)

\* Lines 73-74: append the key unless the list has it.
InsertKey(models, key) ==
    IF \E i \in 1..Len(models) : models[i] = key THEN models ELSE Append(models, key)

\* The bucket before the first call: no index, an empty one, or one that
\* lists a model of an earlier upload.
InitIndex ==
    /\ IdleTrain
    /\ IdlePhrase
    /\ IdleIdeas
    /\ IdleChoice
    /\ IdleReplay
    /\ IdleLoad
    /\ IdleDoc
    /\ IdleHandlers
    /\ index \in {NoIndex, IndexOf(<<>>), IndexOf(<<"z.json">>)}
    /\ index_data = <<>>
    /\ model_key = ""
    /\ ui_pc = "ready"
    /\ processed = {}
    /\ updates = 0

\* lambda_handler, line 29: update_index(s3, bucket, model_key); the call
\* before, if any, is over.
CallUpdateIndex ==
    /\ ui_pc \in {"ready", "returned", "raised"}
    /\ updates < MaxUpdates
    /\ \E key \in ModelKeys : model_key' = key
    /\ index_data' = <<>>
    /\ ui_pc' = "download"
    /\ updates' = updates + 1
    /\ UNCHANGED <<index, processed>>
    /\ UNCHANGED exceptIndex

\* Lines 55-62: index.json is downloaded and read.
DownloadIndex ==
    /\ ui_pc = "download"
    /\ index.exists
    /\ index_data' = index.models
    /\ ui_pc' = "insert"
    /\ UNCHANGED <<index, model_key, processed, updates>>
    /\ UNCHANGED exceptIndex

\* Lines 63-66: ClientError 404, there is no index.json.
DownloadNotFound ==
    /\ ui_pc = "download"
    /\ ~index.exists
    /\ index_data' = <<>>
    /\ ui_pc' = "insert"
    /\ UNCHANGED <<index, model_key, processed, updates>>
    /\ UNCHANGED exceptIndex

\* Lines 67-70: any other ClientError is raised again.
DownloadFailed ==
    /\ ui_pc = "download"
    /\ ui_pc' = "raised"
    /\ UNCHANGED <<index, index_data, model_key, processed, updates>>
    /\ UNCHANGED exceptIndex

\* Lines 72-79: the key enters index_data, which is dumped to /tmp/index.json.
InsertModelKey ==
    /\ ui_pc = "insert"
    /\ index_data' = InsertKey(index_data, model_key)
    /\ ui_pc' = "upload"
    /\ UNCHANGED <<index, model_key, processed, updates>>
    /\ UNCHANGED exceptIndex

\* Lines 81-84: the upload of index.json, and the return.
UploadIndex ==
    /\ ui_pc = "upload"
    /\ index' = IndexOf(index_data)
    /\ processed' = processed \cup {model_key}
    /\ ui_pc' = "returned"
    /\ UNCHANGED <<index_data, model_key, updates>>
    /\ UNCHANGED exceptIndex

\* Line 82: upload_file raises.
UploadFailed ==
    /\ ui_pc = "upload"
    /\ ui_pc' = "raised"
    /\ UNCHANGED <<index, index_data, model_key, processed, updates>>
    /\ UNCHANGED exceptIndex

NextIndex ==
    \/ CallUpdateIndex
    \/ DownloadIndex
    \/ DownloadNotFound
    \/ DownloadFailed
    \/ InsertModelKey
    \/ UploadIndex
    \/ UploadFailed

SpecIndex == InitIndex /\ [][NextIndex]_vars

\* ------------------------------------------------------------- the processors

\* str.lower() of an object key.
Lower(text) ==
    [i \in 1..Len(text) |->
        CASE text[i] = "C" -> "c"
          [] text[i] = "S" -> "s"
          [] text[i] = "V" -> "v"
          [] OTHER -> text[i]]

\* str.endswith
EndsWith(text, suffix) ==
    /\ Len(text) >= Len(suffix)
    /\ SubSeq(text, Len(text) - Len(suffix) + 1, Len(text)) = suffix

\* Mutation: the suffix is tested without its dot.
EndsWithCsv(key) == EndsWith(Lower(key), <<"c", "s", "v">>)

\* model_processor line 115 and lambda_function line 21:
\* key.lower().endswith('.csv')
IsCsvKey(key) == EndsWith(Lower(key), <<".", "c", "s", "v">>)

\* model_processor line 124, key.rsplit('.', 1)[0] + '.json', and
\* lambda_function line 38, os.path.splitext(key)[0] + '.json'; the two agree
\* on keys with a name before the last dot.
JsonKeyOf(key) ==
    LET dots == {i \in 1..Len(key) : key[i] = "."}
        stem == IF dots = {} THEN key
                ELSE SubSeq(key, 1, (CHOOSE d \in dots : \A e \in dots : e <= d) - 1)
    IN  stem \o <<".", "j", "s", "o", "n">>

\* The object keys of the records.
ObjectKeys ==
    { <<"a", ".", "c", "s", "v">>,
      <<"a", ".", "C", "S", "V">>,
      <<"b", ".", "c", "s", "v">>,
      <<"n", ".", "t", "x", "t">>,
      <<"n", "c", "s", "v">> }

\* event['Records'], as the keys of the records.
Events == UNION {[1..n -> ObjectKeys] : n \in 1..MaxRecords}

\* The metadata process_csv returns with the models of a table (lines
\* 166-175): column_count = len(df.columns), row_count = len(df); the list
\* markov_models has one model per column.
Metadata ==
    { [model_type |-> "markov_chain", column_count |-> n, row_count |-> 1,
       model_count |-> n] : n \in 1..2 }

\* model_processor.update_index, lines 214-221.
FileEntry(new_file_key, file_data) ==
    [path |-> new_file_key,
     model_type |-> file_data.model_type,
     column_count |-> file_data.column_count,
     row_count |-> file_data.row_count,
     model_count |-> file_data.model_count,
     last_modified |-> "unknown"]

\* The object index.json of model_processor.
FilesIndex(files, total_files, last_updated) ==
    [exists |-> TRUE, files |-> files, total_files |-> total_files,
     last_updated |-> last_updated]

\* Mutation: the entries of the key stay in the list.
KeepEntries(files, new_file_key) == files

\* Line 224: the entries of the key leave the list.
RemoveEntries(files, new_file_key) ==
    SelectSeq(files, LAMBDA f : f.path # new_file_key)

\* model_processor.update_index, lines 224-229.
UpdateFiles(data, new_file_key, file_entry) ==
    LET files == Append(RemoveEntries(data.files, new_file_key), file_entry)
    IN  FilesIndex(files, Len(files), file_entry.last_modified)

\* The index the handler starts from when the bucket has none:
\* model_processor lines 207-211, lambda_function line 66.
NewIndex(module) ==
    IF module = "model_processor" THEN FilesIndex(<<>>, 0, "None") ELSE IndexOf(<<>>)

\* An entry of an earlier upload.
OldEntry(path) ==
    [path |-> path, model_type |-> "markov_chain", column_count |-> 3,
     row_count |-> 1, model_count |-> 3, last_modified |-> "unknown"]

AJson == <<"a", ".", "j", "s", "o", "n">>

ZJson == <<"z", ".", "j", "s", "o", "n">>

\* The object index.json before the event: none, or one written by the
\* deployed handler for earlier uploads.
Indexes(module) ==
    IF module = "model_processor"
    THEN { NoIndex,
           FilesIndex(<<OldEntry(ZJson)>>, 1, "unknown"),
           FilesIndex(<<OldEntry(AJson), OldEntry(ZJson)>>, 2, "unknown") }
    ELSE { NoIndex, IndexOf(<<ZJson>>), IndexOf(<<AJson, ZJson>>) }

\* An invocation of the handler with the event, before its first statement:
\* calls lists the calls it makes, indexed the model keys for which it put
\* index.json in the bucket.
Invoked(records) ==
    [records |-> records, rec |-> 1, key |-> <<>>, json_key |-> <<>>,
     json_data |-> <<>>, index_data |-> NoIndex, pc |-> "record",
     status_code |-> 0, calls |-> <<>>, indexed |-> <<>>]

\* The call of a function of the handler, or of the S3 client, on a key.
Call(name, key) == [call |-> name, key |-> key]

\* Mutation: the exception is logged and the handler goes on to update_index.
Ignored(p) == [invocation[p] EXCEPT !.pc = "get_index"]

\* The exception leaves the handler: model_processor lines 141-143 and the
\* `raise` of lines 153, 181 and 195; lambda_function has no handler for it.
Raised(p) == [invocation[p] EXCEPT !.pc = "raised"]

\* model_processor: the end of the loop body, on to the next record.
\* lambda_function: the handler returns None.
RecordDone(p) ==
    IF handler = "model_processor"
    THEN [invocation[p] EXCEPT !.rec = @ + 1, !.pc = "record"]
    ELSE [invocation[p] EXCEPT !.pc = "returned"]

\* One invocation, whose event has up to MaxRecords records.
InitProcessor ==
    /\ IdleTrain
    /\ IdlePhrase
    /\ IdleIdeas
    /\ IdleChoice
    /\ IdleReplay
    /\ IdleLoad
    /\ IdleDoc
    /\ IdleIndex
    /\ IdleMcp
    /\ handler \in {"model_processor", "lambda_function"}
    /\ bucket = {}
    /\ index_json \in Indexes(handler)
    /\ \E records \in Events : invocation = [p \in {1} |-> Invoked(records)]

\* Invocations that run at the same time, each for one uploaded object of
\* its own.
InitRace ==
    /\ IdleTrain
    /\ IdlePhrase
    /\ IdleIdeas
    /\ IdleChoice
    /\ IdleReplay
    /\ IdleLoad
    /\ IdleDoc
    /\ IdleIndex
    /\ IdleMcp
    /\ handler \in {"model_processor", "lambda_function"}
    /\ bucket = {}
    /\ index_json \in {NoIndex, NewIndex(handler)}
    /\ \E keys \in [Procs -> ObjectKeys] :
          /\ \A p, q \in Procs : p < q => keys[p] # keys[q]
          /\ invocation = [p \in Procs |-> Invoked(<<keys[p]>>)]

\* model_processor lines 107-117, lambda_function lines 18-23: the record is
\* no CSV file.
SkipRecord(p) ==
    /\ invocation[p].pc = "record"
    /\ invocation[p].rec <= Len(invocation[p].records)
    /\ ~IsCsvKey(invocation[p].records[invocation[p].rec])
    /\ invocation' = [invocation EXCEPT ![p] = RecordDone(p)]
    /\ UNCHANGED <<handler, bucket, index_json>>
    /\ UNCHANGED exceptProcessor

\* model_processor lines 107-120, lambda_function lines 18-26: the record is
\* a CSV file.  lambda_function reads Records[0] only.
TakeRecord(p) ==
    /\ invocation[p].pc = "record"
    /\ invocation[p].rec <= Len(invocation[p].records)
    /\ IsCsvKey(invocation[p].records[invocation[p].rec])
    /\ invocation' = [invocation EXCEPT
                        ![p].key = invocation[p].records[invocation[p].rec],
                        ![p].pc = "download"]
    /\ UNCHANGED <<handler, bucket, index_json>>
    /\ UNCHANGED exceptProcessor

\* model_processor lines 134-139: the loop is over, status 200.
ReturnOk(p) ==
    /\ handler = "model_processor"
    /\ invocation[p].pc = "record"
    /\ invocation[p].rec > Len(invocation[p].records)
    /\ invocation' = [invocation EXCEPT ![p].pc = "returned", ![p].status_code = 200]
    /\ UNCHANGED <<handler, bucket, index_json>>
    /\ UNCHANGED exceptProcessor

\* model_processor.download_file (lines 146-153), lambda_function line 35:
\* the CSV file is read, or the exception of the client is raised again.
DownloadFile(p) ==
    /\ invocation[p].pc = "download"
    /\ \/ invocation' = [invocation EXCEPT
                           ![p].calls = Append(@, Call("download_file", invocation[p].key)),
                           ![p].pc = "generate"]
       \/ invocation' = [invocation EXCEPT
                           ![p] = [Raised(p) EXCEPT
                                     !.calls = Append(@, Call("download_file",
                                                              invocation[p].key))]]
    /\ UNCHANGED <<handler, bucket, index_json>>
    /\ UNCHANGED exceptProcessor

\* model_processor.process_csv (lines 156-181) and line 124, lambda_function
\* lines 38-42: the models of the table, or the exception of read_csv or of
\* the trainer raised again.
GenerateModels(p) ==
    /\ invocation[p].pc = "generate"
    /\ \/ \E file_data \in Metadata :
             invocation' = [invocation EXCEPT
                              ![p].calls = Append(@, Call("generate", invocation[p].key)),
                              ![p].json_data = file_data,
                              ![p].json_key = JsonKeyOf(invocation[p].key),
                              ![p].pc = "upload"]
       \/ invocation' = [invocation EXCEPT
                           ![p] = [Raised(p) EXCEPT
                                     !.calls = Append(@, Call("generate",
                                                              invocation[p].key))]]
    /\ UNCHANGED <<handler, bucket, index_json>>
    /\ UNCHANGED exceptProcessor

\* model_processor.upload_json (lines 184-195), lambda_function line 45: the
\* document is put under the model key, or the exception is raised again.
UploadModel(p) ==
    /\ invocation[p].pc = "upload"
    /\ \/ /\ bucket' = bucket \cup {invocation[p].json_key}
          /\ invocation' = [invocation EXCEPT
                              ![p].calls = Append(@, Call("upload", invocation[p].json_key)),
                              ![p].pc = "get_index"]
       \/ /\ bucket' = bucket
          /\ invocation' = [invocation EXCEPT
                              ![p] = [Raised(p) EXCEPT
                                        !.calls = Append(@, Call("upload",
                                                                 invocation[p].json_key))]]
    /\ UNCHANGED <<handler, index_json>>
    /\ UNCHANGED exceptProcessor

\* model_processor.update_index lines 202-211, lambda_function.update_index
\* lines 55-70: index.json is read, or there is none and a new one is made,
\* or the client fails otherwise: model_processor logs it and goes on (lines
\* 239-242), lambda_function raises it again (line 70).
GetIndex(p) ==
    /\ invocation[p].pc = "get_index"
    /\ \/ invocation' = [invocation EXCEPT
                           ![p].calls = Append(@, Call("update_index", invocation[p].json_key)),
                           ![p].index_data = IF index_json.exists THEN index_json
                                             ELSE NewIndex(handler),
                           ![p].pc = "edit_index"]
       \/ invocation' = [invocation EXCEPT
                           ![p] = [(IF handler = "model_processor" THEN RecordDone(p)
                                    ELSE Raised(p))
                                   EXCEPT !.calls = Append(@, Call("update_index",
                                                                   invocation[p].json_key))]]
    /\ UNCHANGED <<handler, bucket, index_json>>
    /\ UNCHANGED exceptProcessor

\* model_processor.update_index lines 214-229, lambda_function.update_index
\* lines 73-79: the model enters index_data.
EditIndex(p) ==
    /\ invocation[p].pc = "edit_index"
    /\ invocation' = [invocation EXCEPT
                        ![p].index_data =
                            IF handler = "model_processor"
                            THEN UpdateFiles(@, invocation[p].json_key,
                                             FileEntry(invocation[p].json_key,
                                                       invocation[p].json_data))
                            ELSE IndexOf(InsertKey(@.models, invocation[p].json_key)),
                        ![p].pc = "put_index"]
    /\ UNCHANGED <<handler, bucket, index_json>>
    /\ UNCHANGED exceptProcessor

\* model_processor.update_index lines 232-242, lambda_function.update_index
\* lines 82-84: index_data is put in the bucket as index.json, or the client
\* fails: model_processor logs it and goes on, lambda_function raises.
PutIndex(p) ==
    /\ invocation[p].pc = "put_index"
    /\ \/ /\ index_json' = invocation[p].index_data
          /\ invocation' = [invocation EXCEPT
                              ![p] = [RecordDone(p) EXCEPT
                                        !.calls = Append(@, Call("put_index",
                                                                 invocation[p].json_key)),
                                        !.indexed = Append(@, invocation[p].json_key)]]
       \/ /\ index_json' = index_json
          /\ invocation' = [invocation EXCEPT
                              ![p] = [(IF handler = "model_processor" THEN RecordDone(p)
                                       ELSE Raised(p))
                                      EXCEPT !.calls = Append(@, Call("put_index",
                                                                      invocation[p].json_key))]]
    /\ UNCHANGED <<handler, bucket>>
    /\ UNCHANGED exceptProcessor

NextProcessor ==
    \E p \in DOMAIN invocation :
        \/ SkipRecord(p)
        \/ TakeRecord(p)
        \/ ReturnOk(p)
        \/ DownloadFile(p)
        \/ GenerateModels(p)
        \/ UploadModel(p)
        \/ GetIndex(p)
        \/ EditIndex(p)
        \/ PutIndex(p)

\* One invocation of a processor.
SpecProcessor == InitProcessor /\ [][NextProcessor]_vars

\* Invocations of a processor that run at the same time.
SpecRace == InitRace /\ [][NextProcessor]_vars

\* ------------------------------------------------------------- the MCP handler

\* A JSON-RPC method or a tool name is the sequence of the parts its slashes
\* separate; a member that is missing, like one that is null, reads as None
\* with dict.get.
Methods ==
    { <<"initialize">>, <<"notifications", "initialized">>, <<"ping">>,
      <<"tools", "list">>, <<"tools", "call">>, <<"resources", "list">>, None }

ToolNames ==
    { <<"list_models">>, <<"generate_ideas">>, <<"generate_with_template">>,
      <<"delete_model">>, None }

\* The ids of the requests: none, or the string "7".
Ids == {None, <<"7">>}

\* params['arguments']: missing, or an object with or without the members
\* model_name and template.
Arguments ==
    {[type |-> "absent", model_name |-> FALSE, template |-> FALSE]} \cup
    {[type |-> "dict", model_name |-> m, template |-> t] : m, t \in BOOLEAN}

NoParams == [type |-> "absent", name |-> None, arguments |-> CHOOSE a \in Arguments : a.type = "absent"]

\* body['params']: missing, null, or an object with name and arguments.
Params ==
    {NoParams, [NoParams EXCEPT !.type = "null"]} \cup
    {[type |-> "dict", name |-> n, arguments |-> a] : n \in ToolNames, a \in Arguments}

\* A JSON object with the members method, id and params.
Request(method, id, params) ==
    [type |-> "dict", method |-> method, id |-> id, params |-> params]

\* A JSON value that is no object: a list, a string, null.
NonObject(type) == [Request(None, None, NoParams) EXCEPT !.type = type]

\* The JSON texts of event['body'] by the value they parse to; params is
\* read by tools/call alone.
Bodies ==
    {Request(m, i, NoParams) : m \in Methods, i \in Ids} \cup
    {Request(<<"tools", "call">>, i, ps) : i \in Ids, ps \in Params} \cup
    {NonObject(t) : t \in {"list", "string", "null"}}

\* The API Gateway events: the member body is missing, is None, is a text
\* that is no JSON, or is a JSON text.
HttpEvents ==
    {[httpMethod |-> m, body |-> [type |-> "absent", value |-> Request(None, None, NoParams)]] :
        m \in {"OPTIONS", "GET", "POST"}} \cup
    {[httpMethod |-> "POST", body |-> [type |-> t, value |-> Request(None, None, NoParams)]] :
        t \in {"None", "invalid"}} \cup
    {[httpMethod |-> "POST", body |-> [type |-> "json", value |-> v]] : v \in Bodies}

\* Line 223: json.loads(event.get('body', '{}')).
json_loads(raw) ==
    CASE raw.type = "absent" -> Ok(Request(None, None, NoParams))
      [] raw.type = "None" -> Raise("TypeError")
      [] raw.type = "invalid" -> Raise("JSONDecodeError")
      [] OTHER -> Ok(raw.value)

\* The responses of handle_mcp_request: a result, an error with its code, or
\* None; and the other bodies create_response is given.
RpcResult(id, result) == [type |-> "result", id |-> id, code |-> 0, result |-> result]

RpcError(id, code) == [type |-> "error", id |-> id, code |-> code, result |-> ""]

NoResponse == [type |-> "none", id |-> None, code |-> 0, result |-> ""]

PlainBody(content) == [type |-> "plain", id |-> None, code |-> 0, result |-> content]

\* Lines 8-24
create_response(status_code, content) ==
    [raised |-> NoErr, statusCode |-> status_code, body |-> content]

\* What handle_mcp_request did: raised is the exception raised inside its try
\* block, err the one that left the function, val the response returned.
Handled(response) == [raised |-> NoErr, err |-> NoErr, val |-> response]

\* Lines 198-203: the exception is answered with code -32603.
Caught(exception, request) ==
    [raised |-> exception, err |-> NoErr, val |-> RpcError(request.id, -32603)]

\* Lines 30 and 198-201: body.get fails on a body that is no object, in the
\* try block and again in the handler of the exception, which it leaves.
Uncaught(exception) == [raised |-> exception, err |-> exception, val |-> NoResponse]

\* Lines 149 and 163-164: the members of arguments the tool reads by index.
MissingArgument(tool_name, arguments) ==
    \/ tool_name \in {<<"generate_ideas">>, <<"generate_with_template">>}
          /\ ~arguments.model_name
    \/ tool_name = <<"generate_with_template">> /\ ~arguments.template

InitMcp ==
    /\ IdleTrain
    /\ IdlePhrase
    /\ IdleIdeas
    /\ IdleChoice
    /\ IdleReplay
    /\ IdleLoad
    /\ IdleDoc
    /\ IdleIndex
    /\ IdleProcessor
    /\ http_event \in HttpEvents
    /\ body = <<>>
    /\ rpc_result = <<>>
    /\ http_response = <<>>
    /\ mcp_pc = "event"

\* lambda_handler, lines 209-225: OPTIONS, GET, and the parse of the body.
\* Only JSONDecodeError is handled: the TypeError of json.loads(None) leaves
\* the handler.
ParseEvent ==
    /\ mcp_pc = "event"
    /\ IF http_event.httpMethod = "OPTIONS"
       THEN /\ http_response' = create_response(200, PlainBody("{}"))
            /\ mcp_pc' = "responded"
            /\ UNCHANGED body
       ELSE IF http_event.httpMethod = "GET"
       THEN /\ http_response' = create_response(200, PlainBody("service"))
            /\ mcp_pc' = "responded"
            /\ UNCHANGED body
       ELSE LET parsed == json_loads(http_event.body)
            IN  IF parsed.err = "JSONDecodeError"
                THEN /\ http_response' = create_response(400, PlainBody("error"))
                     /\ mcp_pc' = "responded"
                     /\ UNCHANGED body
                ELSE IF parsed.err # NoErr
                THEN /\ http_response' = [raised |-> parsed.err, statusCode |-> 0,
                                          body |-> NoResponse]
                     /\ mcp_pc' = "responded"
                     /\ UNCHANGED body
                ELSE /\ body' = parsed.val
                     /\ mcp_pc' = "parsed"
                     /\ UNCHANGED http_response
    /\ UNCHANGED <<http_event, rpc_result>>
    /\ UNCHANGED exceptMcp

\* handle_mcp_request, lines 29-143 and 178-203, up to its return or to the
\* call of a tool.
HandleMcpRequest ==
    /\ mcp_pc = "parsed"
    /\ IF body.type # "dict"
       THEN /\ rpc_result' = Uncaught("AttributeError")
            /\ mcp_pc' = "handled"
       ELSE IF body.method = <<"initialize">>
       THEN /\ rpc_result' = Handled(RpcResult(body.id, "serverInfo"))
            /\ mcp_pc' = "handled"
       ELSE IF body.method = <<"notifications", "initialized">>
       THEN /\ rpc_result' = Handled(IF body.id = None THEN NoResponse
                                     ELSE RpcResult(body.id, "{}"))
            /\ mcp_pc' = "handled"
       ELSE IF body.method = <<"ping">>
       THEN /\ rpc_result' = Handled(RpcResult(body.id, "status"))
            /\ mcp_pc' = "handled"
       ELSE IF body.method = <<"tools", "list">>
       THEN /\ rpc_result' = Handled(RpcResult(body.id, "tools"))
            /\ mcp_pc' = "handled"
       ELSE IF body.method = <<"tools", "call">>
       THEN IF body.params.type = "null"
            THEN /\ rpc_result' = Caught("AttributeError", body)
                 /\ mcp_pc' = "handled"
            ELSE IF body.params.name \notin
                       {<<"list_models">>, <<"generate_ideas">>, <<"generate_with_template">>}
            THEN /\ rpc_result' = Handled(RpcError(body.id, -32601))
                 /\ mcp_pc' = "handled"
            ELSE IF MissingArgument(body.params.name, body.params.arguments)
            THEN /\ rpc_result' = Caught("KeyError", body)
                 /\ mcp_pc' = "handled"
            ELSE /\ mcp_pc' = "tool"
                 /\ UNCHANGED rpc_result
       ELSE /\ rpc_result' = Handled(RpcError(body.id, -32601))
            /\ mcp_pc' = "handled"
    /\ UNCHANGED <<http_event, body, http_response>>
    /\ UNCHANGED exceptMcp

\* Lines 145-176 and 185-189: the tool returns and its text is the result.
ToolReturns ==
    /\ mcp_pc = "tool"
    /\ rpc_result' = Handled(RpcResult(body.id, "content"))
    /\ mcp_pc' = "handled"
    /\ UNCHANGED <<http_event, body, http_response>>
    /\ UNCHANGED exceptMcp

\* Lines 145, 152, 167 and 198-203: the tool raises.
ToolRaises ==
    /\ mcp_pc = "tool"
    /\ rpc_result' = Caught("Exception", body)
    /\ mcp_pc' = "handled"
    /\ UNCHANGED <<http_event, body, http_response>>
    /\ UNCHANGED exceptMcp

\* lambda_handler, lines 228-240.
Respond ==
    /\ mcp_pc = "handled"
    /\ http_response' =
          IF rpc_result.err # NoErr THEN create_response(500, PlainBody("error"))
          ELSE IF rpc_result.val = NoResponse THEN create_response(200, PlainBody("{}"))
          ELSE create_response(200, rpc_result.val)
    /\ mcp_pc' = "responded"
    /\ UNCHANGED <<http_event, body, rpc_result>>
    /\ UNCHANGED exceptMcp

NextMcp ==
    \/ ParseEvent
    \/ HandleMcpRequest
    \/ ToolReturns
    \/ ToolRaises
    \/ Respond

SpecMcp == InitMcp /\ [][NextMcp]_vars

\* ------------------------------------------------------------- trainer claims

Range(seq) == {seq[i] : i \in 1..Len(seq)}

RECURSIVE SumNum(_)
SumNum(dist) == IF dist = <<>> THEN 0 ELSE Head(dist).v.num + SumNum(Tail(dist))

\* The columns of df that extract_columns has processed.
Processed == 1..Len(markov_models)

\* The training phrases of column j: its cells that are not missing, in row order.
PhrasesOf(j) == SelectSeq(df[j], LAMBDA x : x # None)

\* The token sequences of the training phrases of column j.
TokensOf(j) ==
    LET phrases == PhrasesOf(j)
    IN  [i \in 1..Len(phrases) |-> word_tokenize(preprocess_text(phrases[i]))]

\* The count a Counter holds for a key, 0 for a key it does not have.
CountOf(d, key) ==
    LET hits == {i \in 1..Len(d) : d[i].k = key}
    IN  IF hits = {} THEN 0 ELSE d[CHOOSE i \in hits : TRUE].v

NoDuplicateKeys(d) == \A i, j \in 1..Len(d) : d[i].k = d[j].k => i = j

\* A distribution whose values are count / total with the counts summing to total.
SumsToOne(dist) ==
    dist # <<>> =>
        /\ \A i \in 1..Len(dist) : dist[i].v.den = SumNum(dist) /\ dist[i].v.num > 0
        /\ NoDuplicateKeys(dist)

\* C1: in every Column Model extract_columns produces, each non-empty
\* distribution (every transitions[t], start_words, end_words, lengths) has the
\* values count / total of its counter: the numerators sum to the denominator.
C1_Normalized ==
    \A j \in Processed :
        LET m == markov_models[j]
        IN  /\ SumsToOne(m.start_words)
            /\ SumsToOne(m.end_words)
            /\ SumsToOne(m.lengths)
            /\ \A i \in 1..Len(m.transitions) :
                  /\ m.transitions[i].v # <<>>
                  /\ SumsToOne(m.transitions[i].v)
            /\ j = col - 1 =>
                  /\ \A i \in 1..Len(m.start_words) :
                        m.start_words[i].v.num = CountOf(start_words, m.start_words[i].k)
                  /\ \A i \in 1..Len(m.end_words) :
                        m.end_words[i].v.num = CountOf(end_words, m.end_words[i].k)

\* A model holds a transitions[t] with two successors, one of them counted twice.
C1_Witness ==
    \E j \in Processed : \E i \in 1..Len(markov_models[j].transitions) :
        LET d == markov_models[j].transitions[i].v
        IN  Len(d) >= 2 /\ \E n \in 1..Len(d) : d[n].v.num = 2 /\ d[n].v.den = 3

\* The tokens that occur in the token sequences toks.
TokensIn(toks) == UNION {Range(toks[i]) : i \in 1..Len(toks)}

\* The tokens that occur in the training phrases of column j.
TrainingTokens(j) == TokensIn(TokensOf(j))

\* C2: token closure: every key of transitions, every successor key of a
\* transitions[t] and every key of start_words and end_words of a Column Model
\* is a token of a training phrase of that same column.
C2_TokenClosure ==
    \A j \in Processed :
        LET m == markov_models[j]
            seen == TrainingTokens(j)
        IN  /\ KeySet(m.transitions) \subseteq seen
            /\ \A i \in 1..Len(m.transitions) : KeySet(m.transitions[i].v) \subseteq seen
            /\ KeySet(m.start_words) \subseteq seen
            /\ KeySet(m.end_words) \subseteq seen

\* Two models of one table have tokens the other column never saw, and one
\* column has a missing cell.
C2_Witness ==
    /\ train_pc = "returned"
    /\ Len(markov_models) = 2
    /\ KeySet(markov_models[1].start_words) \ TrainingTokens(2) # {}
    /\ KeySet(markov_models[2].end_words) \ TrainingTokens(1) # {}
    /\ \E r \in 1..Len(df[1]) : df[1][r] = None

\* The phrases, among the token sequences toks, whose first (last) token is w.
StartingWith(toks, w) == {i \in 1..Len(toks) : toks[i] # <<>> /\ toks[i][1] = w}

EndingWith(toks, w) == {i \in 1..Len(toks) : toks[i] # <<>> /\ toks[i][Len(toks[i])] = w}

\* The adjacent occurrences of (a, b) in the token sequences toks.
AdjacentPairs(toks, a, b) ==
    {p \in UNION {{<<i, n>> : n \in 1..(Len(toks[i]) - 1)} : i \in 1..Len(toks)} :
        toks[p[1]][p[2]] = a /\ toks[p[1]][p[2] + 1] = b}

\* Every token the claim can be asked about: the training tokens and the keys.
AllWords(toks) ==
    TokensIn(toks) \cup KeySet(start_words) \cup KeySet(end_words)
        \cup KeySet(transitions)
        \cup UNION {KeySet(transitions[i].v) : i \in 1..Len(transitions)}

\* C3: after extract_phrases on the phrases of a column, start_words[w] is the
\* number of phrases whose first token is w, end_words[w] the number whose last
\* token is w, transitions[a][b] the number of adjacent occurrences of (a, b),
\* and lengths has one entry per phrase, its token count, in phrase order.
C3_ExactCounts ==
    col > 1 =>
        LET toks == TokensOf(col - 1)
            words == AllWords(toks)
        IN  /\ NoDuplicateKeys(start_words)
            /\ NoDuplicateKeys(end_words)
            /\ NoDuplicateKeys(transitions)
            /\ \A w \in words :
                  /\ CountOf(start_words, w) = Cardinality(StartingWith(toks, w))
                  /\ CountOf(end_words, w) = Cardinality(EndingWith(toks, w))
            /\ \A a, b \in words :
                  (IF Has(transitions, a) THEN CountOf(Get(transitions, a), b) ELSE 0)
                      = Cardinality(AdjacentPairs(toks, a, b))
            /\ \A i \in 1..Len(transitions) :
                  NoDuplicateKeys(transitions[i].v) /\ transitions[i].v # <<>>
            /\ lengths = [i \in 1..Len(toks) |-> Len(toks[i])]

\* A column with a phrase of zero tokens and a phrase that repeats a pair.
C3_Witness ==
    /\ col > 1
    /\ \E i \in 1..Len(lengths) : lengths[i] = 0
    /\ \E i \in 1..Len(transitions) : \E n \in 1..Len(transitions[i].v) :
          transitions[i].v[n].v = 2

\* A column in which every cell is missing or preprocesses to zero tokens.
Tokenless(j) ==
    \A r \in 1..Len(df[j]) :
        df[j][r] = None \/ word_tokenize(preprocess_text(df[j][r])) = <<>>

AllMissing(j) == \A r \in 1..Len(df[j]) : df[j][r] = None

\* C4 as stated: a column in which every cell is missing or preprocesses to
\* zero tokens yields a Column Model whose four distributions are all empty.
C4_AllFourEmpty ==
    \A j \in Processed :
        Tokenless(j) =>
            /\ markov_models[j].transitions = <<>>
            /\ markov_models[j].start_words = <<>>
            /\ markov_models[j].end_words = <<>>
            /\ markov_models[j].lengths = <<>>

\* C4 amended: such a column yields empty transitions, start_words and
\* end_words; lengths is empty only when every cell is missing, and otherwise
\* it is the single entry 0 -> n / n for the n cells that are not missing.
C4_EmptyExceptLengths ==
    \A j \in Processed :
        Tokenless(j) =>
            /\ markov_models[j].transitions = <<>>
            /\ markov_models[j].start_words = <<>>
            /\ markov_models[j].end_words = <<>>
            /\ AllMissing(j) => markov_models[j].lengths = <<>>
            /\ ~AllMissing(j) =>
                  markov_models[j].lengths =
                      <<[k |-> 0, v |-> [num |-> Len(PhrasesOf(j)),
                                         den |-> Len(PhrasesOf(j))]]>>

\* A processed column that has a missing cell and a cell of punctuation only.
C4_Witness ==
    \E j \in Processed :
        /\ Tokenless(j)
        /\ ~AllMissing(j)
        /\ \E r \in 1..Len(df[j]) : df[j][r] = None

\* ------------------------------------------------------------- generate_phrase claims

\* C5: generate_phrase on a model whose lengths is empty, or whose start_words
\* is empty, raises an error (ValueError) before the walk starts and returns
\* no phrase.
C5_DegenerateModelFails ==
    (gp_pc # "idle" /\ (model.lengths = <<>> \/ model.start_words = <<>>)) =>
        /\ gp_result = None
        /\ phrase = <<>>
        /\ \/ gp_pc = "call"
           \/ gp_pc = "failed" /\ gp_error = "ValueError"

\* The call failed on the empty start_words of a model whose lengths allow a
\* target length.
C5_Witness ==
    /\ gp_pc = "failed"
    /\ model.start_words = <<>>
    /\ model.lengths # <<>>
    /\ MaxLengthOf(model.lengths).err = NoErr
    /\ MaxLengthOf(model.lengths).val >= 2

\* The string s ends with the token t, at a token boundary.
EndsWithToken(s, t) ==
    /\ Len(s) >= Len(t)
    /\ SubSeq(s, Len(s) - Len(t) + 1, Len(s)) = t
    /\ Len(s) = Len(t) \/ s[Len(s) - Len(t)] = " "

\* C6: whenever generate_phrase returns a phrase, its last token is a key of
\* the model's end_words.
C6_EndWordEnforced ==
    gp_pc = "done" =>
        /\ phrase # <<>>
        /\ \E i \in 1..Len(model.end_words) : model.end_words[i].k = phrase[Len(phrase)]
        /\ EndsWithToken(gp_result, phrase[Len(phrase)])

\* A phrase was returned whose last token the repair took from end_words, the
\* walk having stopped on another word.
C6_Witness ==
    /\ gp_pc = "done"
    /\ current_word # phrase[Len(phrase)]
    /\ ~(\E i \in 1..Len(model.end_words) : model.end_words[i].k = current_word)

LogOfTrial(k) == SelectSeq(phrase_log, LAMBDA entry : entry.trial = k)

\* The first n parts with one space between neighbours.
RECURSIVE SpaceJoined(_, _)
SpaceJoined(parts, n) ==
    IF n = 0 THEN <<>>
    ELSE IF n = 1 THEN parts[1]
    ELSE SpaceJoined(parts, n - 1) \o <<" ">> \o parts[n]

\* C8: generate_ideas returns exactly count strings, and the k-th is the
\* single-space join of one generate_phrase result per Column Model, in
\* column order, all generated within trial k.
C8_IdeasAreJoinedPhrases ==
    op = "generate_ideas" =>
        /\ gi_pc = "returned" => Len(ideas) = count
        /\ \A k \in 1..Len(ideas) :
              LET log == LogOfTrial(k - 1)
              IN  /\ Len(log) = Len(model_set)
                  /\ \A i \in 1..Len(log) : log[i].column = i
                  /\ ideas[k] = SpaceJoined([i \in 1..Len(log) |-> log[i].phrase], Len(log))

\* Two trials on a Model Set of two columns returned two different ideas.
C8_Witness ==
    /\ op = "generate_ideas"
    /\ gi_pc = "returned"
    /\ count = 2
    /\ Len(model_set) = 2
    /\ Len(ideas) = 2
    /\ ideas[1] # ideas[2]

\* C9: generate_ideas and generate_with_template called with a count outside
\* [1, 50] fail and produce no ideas: such a call never enters its trials
\* and never returns.
C9_CountOutOfRangeFails ==
    (gi_pc # "idle" /\ count \notin MinCount..MaxCount) =>
        /\ gi_pc \in {"start", "raised"}
        /\ ideas = <<>>
        /\ phrase_log = <<>>

\* The template has a "$" followed by a run of digits that is not all zeros.
HasPositivePlaceholder(text) ==
    \E i \in 1..Len(text) : \E j \in (i + 1)..Len(text) :
        /\ text[i] = "$"
        /\ \A n \in (i + 1)..j : IsDigit(text[n])
        /\ \E n \in (i + 1)..j : text[n] # "0"

\* C10: generate_with_template fails, before any phrase is generated, for
\* every template without a placeholder $N with N a positive integer.
C10_NoPlaceholderFails ==
    (op = "generate_with_template" /\ ~HasPositivePlaceholder(template)) =>
        /\ gi_pc \in {"start", "raised"}
        /\ gp_pc = "idle"
        /\ phrase_log = <<>>

\* ------------------------------------------------------------- template claims

\* The numbers N of the placeholders $N of the template: each "$" with the
\* whole run of digits that follows it.
ReferencedNumbers(text) ==
    {ParseInt(SubSeq(text, i + 1, j)) :
        <<i, j>> \in {q \in (1..Len(text)) \X (1..Len(text)) :
                        /\ q[1] < q[2]
                        /\ text[q[1]] = "$"
                        /\ \A n \in (q[1] + 1)..q[2] : IsDigit(text[n])
                        /\ (q[2] < Len(text) => ~IsDigit(text[q[2] + 1]))}}

\* The highest placeholder number exceeds the number of Column Models.
TooFewModels ==
    \E n \in ReferencedNumbers(template) : n > Len(model_set)

\* C11: generate_with_template on a template with placeholders fails at its
\* first step, before any phrase is generated, exactly when the highest
\* placeholder number exceeds the number of Column Models of the Model Set;
\* otherwise that step does not fail and the trials begin.
C11_InsufficientModels ==
    [][(gi_pc = "start" /\ op = "generate_with_template"
            /\ ReferencedNumbers(template) # {})
        => /\ TooFewModels => (gi_pc' = "raised" /\ gi_error' = "Exception"
                                 /\ ideas' = <<>> /\ phrase_log' = <<>> /\ gp_pc' = "idle")
           /\ ~TooFewModels => (gi_pc' = "trial" /\ gi_error' = NoErr)]_vars

\* A template that names $1 and $2 failed on a Model Set of one Column Model.
C11_Witness ==
    /\ op = "generate_with_template"
    /\ gi_pc = "raised"
    /\ phrase_log = <<>>
    /\ Len(model_set) = 1
    /\ ReferencedNumbers(template) = {1, 2}

\* The template with each placeholder replaced by its phrase, read from the
\* left: a "$" followed by a whole run of digits that is the decimal numeral
\* of some i in 1..Len(phrases) becomes phrases[i]; any other character stays.
RECURSIVE Substituted(_, _)
Substituted(text, phrases) ==
    IF text = <<>> THEN <<>>
    ELSE LET run == DigitRun(Tail(text))
             i == ParseInt(run)
         IN  IF /\ Head(text) = "$"
                /\ run # <<>>
                /\ i \in 1..Len(phrases)
                /\ run = ToDigits(i)
             THEN phrases[i] \o Substituted(SubSeq(text, 2 + Len(run), Len(text)), phrases)
             ELSE <<Head(text)>> \o Substituted(Tail(text), phrases)

\* C12: generate_with_template returns exactly count strings, and the k-th
\* is the template with every occurrence of each placeholder $i, i from 1 to
\* the number of Column Models (two-digit i included), replaced by the phrase
\* generated in trial k from the i-th Column Model.
C12_TemplateSubstituted ==
    op = "generate_with_template" =>
        /\ gi_pc = "returned" => Len(ideas) = count
        /\ \A k \in 1..Len(ideas) :
              LET log == LogOfTrial(k - 1)
              IN  /\ Len(log) = Len(model_set)
                  /\ \A i \in 1..Len(log) : log[i].column = i
                  /\ ideas[k] = Substituted(template, [i \in 1..Len(log) |-> log[i].phrase])

\* ------------------------------------------------------------- weighted_random_choice claims

\* The weight the call gave to the item it returned.
WeightOfResult ==
    wc_weights[CHOOSE i \in 1..Len(wc_items) : wc_items[i] = wc_result.val]

\* C13: weighted_random_choice never returns an item of weight 0 when
\* another item has a positive weight, whatever the draw in [0, total), the
\* draw 0 included.
C13_NoZeroWeightItem ==
    (/\ wc_pc = "done"
     /\ wc_result.err = NoErr
     /\ \E i \in 1..Len(wc_weights) : wc_weights[i] > 0)
        => WeightOfResult > 0

\* ------------------------------------------------------------- determinism claims

\* C14: two runs of generate_phrase on the same model that consume the same
\* sequence of random draws return the same phrase.
C14_Deterministic ==
    (/\ run_no = 2
     /\ gp_pc = "done"
     /\ pos = Len(tape) + 1
     /\ first_result.err = NoErr)
        => gp_result = first_result.val

\* ------------------------------------------------------------- frame claims

\* C15: generation is read-only on models: no step of generate_phrase,
\* generate_ideas or generate_with_template, on success, on restart or on
\* failure, changes a Column Model of the Model Set or the model of the
\* running generate_phrase frame.
C15_ModelsReadOnly ==
    [][/\ model_set' = model_set
       /\ (gp_pc \notin {"idle", "call"} /\ gp_pc' # "idle") => model' = model
       /\ (gp_pc = "call" /\ gi_pc = "await") => model' = model]_vars

\* A second trial is under way, its generate_phrase restarted, and looked up
\* a word that is no key of transitions.
C15_Witness ==
    /\ gi_pc = "await"
    /\ Len(ideas) >= 1
    /\ depth >= 1
    /\ gp_pc = "post"
    /\ ~Has(model.transitions, current_word)

\* ------------------------------------------------------------- concurrency claims

\* C16: concurrent invocations share no mutable state: under every
\* interleaving the Model Set an invocation generates from is the one it
\* loads when it runs alone on the same, empty cache, the document served
\* under its own model name, and not something another invocation wrote.
C16_NoSharedState ==
    \A p \in DOMAIN lm_pc :
        lm_pc[p] = "returned" => loaded[p] = Remote(model_name[p])

\* ------------------------------------------------------------- length claims

\* lengths = {"3": 1.0}
LengthsOnlyThree(m) ==
    /\ Len(m.lengths) = 1
    /\ m.lengths[1].k = <<"3">>
    /\ m.lengths[1].v.num = m.lengths[1].v.den

\* Every start word has a successor in transitions, and no successor is
\* the empty string.
StartWordsHaveSuccessors(m) ==
    \A w \in KeySet(m.start_words) :
        /\ Has(m.transitions, w)
        /\ Get(m.transitions, w) # <<>>
        /\ \A x \in KeySet(Get(m.transitions, w)) : x # <<>>

IsShare(dist, key, n, total) ==
    IF n = 0 THEN ~Has(dist, key)
    ELSE /\ Has(dist, key)
         /\ Get(dist, key).num = n
         /\ Get(dist, key).den = total

\* The statistics of the model m are those of the token sequences toks.
StatisticsOf(m, toks) ==
    LET words == TokensIn(toks) \cup KeySet(m.start_words) \cup KeySet(m.end_words)
                     \cup KeySet(m.transitions)
                     \cup UNION {KeySet(m.transitions[i].v) : i \in 1..Len(m.transitions)}
        spoken == {i \in 1..Len(toks) : toks[i] # <<>>}
        sizes == {Len(toks[i]) : i \in 1..Len(toks)} \cup KeySet(m.lengths)
    IN  /\ NoDuplicateKeys(m.start_words) /\ NoDuplicateKeys(m.end_words)
        /\ NoDuplicateKeys(m.transitions) /\ NoDuplicateKeys(m.lengths)
        /\ \A w \in words :
              /\ IsShare(m.start_words, w, Cardinality(StartingWith(toks, w)),
                         Cardinality(spoken))
              /\ IsShare(m.end_words, w, Cardinality(EndingWith(toks, w)),
                         Cardinality(spoken))
        /\ \A a \in words :
              LET total == SumTo([i \in 1..Len(toks) |->
                                     Cardinality({n \in 1..(Len(toks[i]) - 1) :
                                                     toks[i][n] = a})], Len(toks))
              IN  IF total = 0 THEN ~Has(m.transitions, a)
                  ELSE /\ Has(m.transitions, a)
                       /\ NoDuplicateKeys(Get(m.transitions, a))
                       /\ \A b \in words :
                             IsShare(Get(m.transitions, a), b,
                                     Cardinality(AdjacentPairs(toks, a, b)), total)
        /\ \A n \in sizes :
              IsShare(m.lengths, n, Cardinality({i \in 1..Len(toks) : Len(toks[i]) = n}),
                      Len(toks))

\* C18: extract_columns returns exactly one Column Model per table column, in
\* column order, each with exactly the keys column_index, transitions,
\* start_words, end_words and lengths; column_index is the column's
\* identifier, and the statistics are those of the column's own non-missing
\* cells.
C18_OneModelPerColumn ==
    train_pc = "returned" =>
        /\ Len(markov_models) = Len(df)
        /\ \A j \in 1..Len(markov_models) :
              /\ DOMAIN markov_models[j] =
                     {"column_index", "transitions", "start_words", "end_words", "lengths"}
              /\ markov_models[j].column_index = ColumnLabel(j)
              /\ StatisticsOf(markov_models[j], TokensOf(j))

\* Two columns that start phrases with the same word, with different shares,
\* one of them with a missing cell.
C18_Witness ==
    /\ train_pc = "returned"
    /\ Len(markov_models) = 2
    /\ Has(markov_models[1].start_words, A)
    /\ Has(markov_models[2].start_words, A)
    /\ Get(markov_models[1].start_words, A) # Get(markov_models[2].start_words, A)
    /\ \E r \in 1..Len(df[2]) : df[2][r] = None

\* ------------------------------------------------------------- format claims

\* C19: both trainers emit the shared Model Set format: the document a
\* trainer writes for a table is the sequence of the Column Models of the
\* table, the list generate_ideas iterates as column models.
C19_SharedFormat ==
    doc_pc = "written" =>
        /\ document.type = "list"
        /\ document.items = ModelSetOf(df)

\* ------------------------------------------------------------- index claims

\* The number of entries of the list that equal key.
Occurrences(models, key) == Cardinality({i \in 1..Len(models) : models[i] = key})

\* models continues old: the entries of old, in their order, come first.
Extends(models, old) ==
    Len(old) <= Len(models) /\ SubSeq(models, 1, Len(old)) = old

\* C20: lambda_function.update_index is a set-insert on the index: a call
\* that returns leaves index['models'] as it was when the key was listed and
\* with the key appended when it was not (no index.json counting as the
\* empty list); a call that raises leaves the index as it was; and after any
\* sequence of calls the index lists every processed key exactly once.
C20_IndexSetInsert ==
    /\ [](\A key \in processed : index.exists /\ Occurrences(index.models, key) = 1)
    /\ [][/\ ui_pc' = "returned" /\ ui_pc # "returned" =>
               /\ index'.exists
               /\ Extends(index'.models, index.models)
               /\ index'.models =
                      IF Occurrences(index.models, model_key) > 0 THEN index.models
                      ELSE Append(index.models, model_key)
          /\ ui_pc' # "returned" => index' = index]_vars

\* Three calls for two keys have returned on an index that listed another
\* model: the index lists the three, the old entry first.
C20_Witness ==
    /\ updates = MaxUpdates
    /\ ui_pc = "returned"
    /\ processed = ModelKeys
    /\ Len(index.models) = 3
    /\ index.models[1] = "z.json"

\* ------------------------------------------------------------- processor claims

\* The key does not end with ".csv", whatever the case of its letters.
NotCsv(key) ==
    \/ Len(key) < 4
    \/ key[Len(key) - 3] # "."
    \/ key[Len(key) - 2] \notin {"c", "C"}
    \/ key[Len(key) - 1] \notin {"s", "S"}
    \/ key[Len(key)] \notin {"v", "V"}

\* The invocation stands before a record that is no CSV file.
AtNonCsvRecord(p) ==
    /\ invocation[p].pc = "record"
    /\ invocation[p].rec <= Len(invocation[p].records)
    /\ NotCsv(invocation[p].records[invocation[p].rec])

\* C21: a record whose key does not end with ".csv" (in any case) is skipped
\* with no effect: the step of the handler on it makes no call (no download,
\* no generation, no upload, no index update), leaves the bucket and
\* index.json alone and does not raise; model_processor goes on to the next
\* record, and an event without any CSV record makes no call at all and ends
\* model_processor with status 200.
C21_NonCsvSkipped ==
    /\ [][\A p \in DOMAIN invocation :
            (AtNonCsvRecord(p) /\ invocation'[p] # invocation[p])
            => /\ bucket' = bucket
               /\ index_json' = index_json
               /\ invocation'[p].calls = invocation[p].calls
               /\ invocation'[p].indexed = invocation[p].indexed
               /\ IF handler = "model_processor"
                  THEN /\ invocation'[p].pc = "record"
                       /\ invocation'[p].rec = invocation[p].rec + 1
                  ELSE invocation'[p].pc = "returned"]_vars
    /\ [](\A p \in DOMAIN invocation :
            (\A i \in 1..Len(invocation[p].records) : NotCsv(invocation[p].records[i]))
            => /\ invocation[p].calls = <<>>
               /\ bucket = {}
               /\ invocation[p].pc \in {"record", "returned"}
               /\ (handler = "model_processor" /\ invocation[p].pc = "returned")
                     => invocation[p].status_code = 200)

\* model_processor has skipped two records that are no CSV files, one of
\* them with csv at its end but no dot, and returned.
C21_Witness ==
    /\ handler = "model_processor"
    /\ DOMAIN invocation = {1}
    /\ invocation[1].pc = "returned"
    /\ Len(invocation[1].records) = 2
    /\ invocation[1].records[1] = <<"n", "c", "s", "v">>
    /\ NotCsv(invocation[1].records[2])
    /\ invocation[1].status_code = 200

\* The invocation puts index.json in the bucket in this step.
PutsIndex(p) ==
    /\ invocation[p].pc = "put_index"
    /\ Len(invocation'[p].indexed) > Len(invocation[p].indexed)

\* The entries of the list with the path, and those with another path, in
\* their order.
EntriesWith(files, path) == SelectSeq(files, LAMBDA f : f.path = path)

EntriesWithout(files, path) == SelectSeq(files, LAMBDA f : f.path # path)

\* C22: after every call of model_processor.update_index that put the index,
\* total_files is the number of entries of files, exactly one entry has the
\* path of the new file key and it describes the new file (an entry with that
\* path is replaced), the entries with other paths are the ones of the index
\* before the call, and a missing index is created with that single entry.
C22_IndexConsistent ==
    [][\A p \in DOMAIN invocation :
          (handler = "model_processor" /\ PutsIndex(p))
          => LET key == invocation[p].json_key
                 before == IF index_json.exists THEN index_json.files ELSE <<>>
                 after == index_json'
             IN  /\ after.exists
                 /\ after.total_files = Len(after.files)
                 /\ EntriesWith(after.files, key) =
                       <<FileEntry(key, invocation[p].json_data)>>
                 /\ EntriesWithout(after.files, key) = EntriesWithout(before, key)
                 /\ ~index_json.exists => Len(after.files) = 1]_vars

\* An index that listed a.json and z.json lists z.json as before and a.json
\* once, with the column count of the new file.
C22_Witness ==
    /\ handler = "model_processor"
    /\ DOMAIN invocation = {1}
    /\ invocation[1].indexed = <<AJson>>
    /\ index_json.exists
    /\ Len(index_json.files) = 2
    /\ index_json.files[1] = OldEntry(ZJson)
    /\ index_json.files[2].path = AJson
    /\ index_json.files[2].column_count = 1
    /\ index_json.total_files = 2

\* The call at position i of the list follows the calls of the steps before
\* it, on the same record.
InOrder(c, i) ==
    CASE c[i].call = "generate" ->
            i > 1 /\ c[i - 1] = Call("download_file", c[i].key)
      [] c[i].call = "upload" ->
            i > 1 /\ c[i - 1].call = "generate" /\ c[i].key = JsonKeyOf(c[i - 1].key)
      [] c[i].call = "update_index" ->
            i > 1 /\ c[i - 1] = Call("upload", c[i].key) /\ c[i].key \in bucket
      [] c[i].call = "put_index" ->
            i > 1 /\ c[i - 1] = Call("update_index", c[i].key)
      [] OTHER -> TRUE

\* C23: for each CSV record the calls are download, generation, upload and
\* index update in that order; a failure of download, generation or upload
\* leaves the handler as an exception, with no index update for the record
\* and no later step; the keys an invocation enters in index.json are keys
\* of documents it uploaded before.
C23_UploadBeforeIndex ==
    /\ [](\A p \in DOMAIN invocation :
            /\ \A i \in 1..Len(invocation[p].calls) : InOrder(invocation[p].calls, i)
            /\ \A i \in 1..Len(invocation[p].indexed) : invocation[p].indexed[i] \in bucket
            /\ invocation[p].pc \in {"get_index", "edit_index", "put_index"}
                  => invocation[p].json_key \in bucket)
    /\ [][\A p \in DOMAIN invocation :
            /\ invocation[p].pc = "download"
                  => invocation'[p].pc \in {"download", "generate", "raised"}
            /\ invocation[p].pc = "generate"
                  => invocation'[p].pc \in {"generate", "upload", "raised"}
            /\ invocation[p].pc = "upload"
                  => /\ invocation'[p].pc \in {"upload", "get_index", "raised"}
                     /\ invocation'[p].pc = "get_index"
                           => invocation[p].json_key \in bucket'
            /\ invocation'[p].pc = "raised"
                  => /\ index_json' = index_json
                     /\ invocation'[p].indexed = invocation[p].indexed
            /\ invocation[p].pc = "raised" => invocation'[p] = invocation[p]]_vars

\* The second record of an event failed at its upload after the first was
\* processed and entered in the index: one index update, for the first.
C23_Witness ==
    /\ DOMAIN invocation = {1}
    /\ handler = "model_processor"
    /\ invocation[1].pc = "raised"
    /\ invocation[1].rec = 2
    /\ invocation[1].indexed = <<AJson>>
    /\ Len(invocation[1].calls) = 8
    /\ invocation[1].calls[8].call = "upload"
    /\ invocation[1].calls[8].key \notin bucket

\* The model keys index.json lists.
ListedKeys ==
    IF ~index_json.exists THEN {}
    ELSE IF handler = "model_processor"
         THEN {index_json.files[i].path : i \in 1..Len(index_json.files)}
         ELSE {index_json.models[i] : i \in 1..Len(index_json.models)}

\* C30: no lost index update: once the invocations that run at the same time,
\* each for a CSV file of its own, have all returned, index.json lists every
\* model key for which one of them put the index.
C30_NoLostUpdate ==
    (\A p \in DOMAIN invocation : invocation[p].pc = "returned")
    => \A p \in DOMAIN invocation :
          \A i \in 1..Len(invocation[p].indexed) : invocation[p].indexed[i] \in ListedKeys

\* ------------------------------------------------------------- walk claims

\* C24: every phrase generate_phrase returns has at most maxLength tokens,
\* maxLength being the largest key of lengths, whatever the model and the
\* draws, a token added by the repair after the loop included.
C24_LengthCeiling ==
    gp_pc = "done"
    => /\ Len(word_tokenize(gp_result)) <= MaxLengthOf(model.lengths).val
       /\ Len(phrase) <= MaxLengthOf(model.lengths).val

\* A phrase of maxLength = 3 tokens whose last token is an end word the
\* repair drew: the walk stood on another word.
C24_Witness ==
    /\ gp_pc = "done"
    /\ MaxLengthOf(model.lengths) = Ok(3)
    /\ Len(word_tokenize(gp_result)) = 3
    /\ ~is_end_word(current_word, model.end_words)
    /\ phrase[3] # current_word

\* The successors of the word in transitions that are keys of end_words.
EndSuccessors(m, word) ==
    IF Has(m.transitions, word)
    THEN KeySet(Get(m.transitions, word)) \cap KeySet(m.end_words)
    ELSE {}

\* The step after the loop: the repair and the return, or an exception.
RepairStep == gp_pc = "post" /\ gp_pc' # "post"

\* The step returns the phrase with one more token at its end.
AppendsOne ==
    /\ gp_pc' = "done"
    /\ Len(phrase') = Len(phrase) + 1
    /\ SubSeq(phrase', 1, Len(phrase)) = phrase

\* The step appends one token: a successor of currentWord that is an end
\* word if there is one, a key of end_words otherwise.
RepairsWithEndWord ==
    /\ AppendsOne
    /\ IF EndSuccessors(model, current_word) # {}
       THEN phrase'[Len(phrase')] \in EndSuccessors(model, current_word)
       ELSE phrase'[Len(phrase')] \in KeySet(model.end_words)

\* C25 as stated: when the walk stops with currentWord not a key of
\* end_words exactly one token is appended, a successor of currentWord that
\* is an end word if there is one and a key of end_words otherwise; when
\* currentWord is an end word nothing is appended.
C25_RepairAppendsOne ==
    [][RepairStep
       => IF current_word \in KeySet(model.end_words)
          THEN gp_pc' = "done" /\ phrase' = phrase
          ELSE RepairsWithEndWord]_vars

\* C25, amended: the same, except that with an empty end_words (and so no
\* successor that is an end word) nothing can be appended: the call raises
\* ValueError and returns no phrase.
C25_RepairAppendsOneOrFails ==
    [][RepairStep
       => IF current_word \in KeySet(model.end_words)
          THEN gp_pc' = "done" /\ phrase' = phrase
          ELSE IF model.end_words = <<>>
          THEN /\ gp_pc' = "failed"
               /\ gp_error' = "ValueError"
               /\ phrase' = phrase
               /\ gp_result' = None
          ELSE RepairsWithEndWord]_vars

\* The walk stopped after its first step on a start word that is no end
\* word, one token short of a target of 3, and the repair appended a
\* successor of that word that is an end word.
C25_Witness ==
    /\ gp_pc = "done"
    /\ target_length = 3
    /\ attempts = 1
    /\ Len(phrase) = 2
    /\ ~is_end_word(phrase[1], model.end_words)
    /\ phrase[2] \in EndSuccessors(model, phrase[1])
    /\ current_word = phrase[2]

\* The largest key of lengths is below 2.
ShortLengths(m) ==
    /\ MaxLengthOf(m.lengths).err = NoErr
    /\ MaxLengthOf(m.lengths).val < 2

\* C28: once generate_phrase is past the sampling of the length,
\* 2 <= targetLength <= maxLength; for a model whose largest lengths key is
\* below 2 the call raises an error (ValueError, the empty range of randint)
\* before a start word is selected, and never returns a phrase.
C28_TargetLengthRange ==
    /\ gp_pc \in {"loop", "post", "done"}
          => /\ 2 <= target_length
             /\ target_length <= MaxLengthOf(model.lengths).val
             /\ max_length = MaxLengthOf(model.lengths).val
    /\ (gp_pc # "idle" /\ ShortLengths(model))
          => /\ gp_pc \in {"call", "failed"}
             /\ gp_pc = "failed" => gp_error = "ValueError"
             /\ current_word = None
             /\ phrase = <<>>
             /\ gp_result = None

\* The call failed on a model with lengths = {"1": 1.0} that has start words.
C28_Witness ==
    /\ gp_pc = "failed"
    /\ gp_error = "ValueError"
    /\ MaxLengthOf(model.lengths) = Ok(1)
    /\ model.start_words # <<>>
    /\ model.end_words # <<>>

\* The tokens a walk on the model can stand on: the start words, the
\* successors in transitions, and the vocabulary the jump draws from.
WalkTokens(m) ==
    Vocabulary(m) \cup
    UNION {KeySet(m.transitions[i].v) : i \in 1..Len(m.transitions)}

\* The token is an end word or has a successor.
EndOrContinues(m, w) ==
    \/ w \in KeySet(m.end_words)
    \/ Has(m.transitions, w) /\ Get(m.transitions, w) # <<>>

\* C27: in every model the trainer writes, each token a walk can stand on is
\* a key of end_words or has a non-empty transitions entry; so (maxLength
\* being far below 1000) a walk on it that leaves the loop stands on an end
\* word, and the repair after the loop appends no token.
C27_TrainedWalkEndsOnEndWord ==
    /\ [](model \in TrainedModels
            => \A w \in WalkTokens(model) : EndOrContinues(model, w))
    /\ [][(model \in TrainedModels /\ RepairStep)
            => /\ current_word \in KeySet(model.end_words)
               /\ gp_pc' = "done"
               /\ phrase' = phrase]_vars

\* A walk on a trained model stopped for lack of a continuation, short of
\* its target length, and was returned as it stood.
C27_Witness ==
    /\ gp_pc = "done"
    /\ model \in TrainedModels
    /\ Len(phrase) = attempts
    /\ Len(phrase) < target_length
    /\ ~Has(model.transitions, current_word)

\* ------------------------------------------------------------- cache claims

\* C29: a cache entry is only ever returned for the model name it was
\* downloaded for: a call of load_model that returns the content of its
\* cache file returns the Model Set served under its own model_name, so two
\* distinct model names never share a cache entry.
C29_CacheEntryPerName ==
    [][\A p \in DOMAIN lm_pc :
          (lm_pc[p] = "start" /\ lm_pc'[p] = "returned")
          => /\ loaded'[p] = cache[get_model_cache_path(model_name[p])].doc
             /\ loaded'[p] = Remote(model_name[p])]_vars

\* ------------------------------------------------------------- MCP claims

\* The tools of tools/call.
KnownTools == {<<"list_models">>, <<"generate_ideas">>, <<"generate_with_template">>}

\* The methods handle_mcp_request answers.
KnownMethods ==
    { <<"initialize">>, <<"notifications", "initialized">>, <<"ping">>,
      <<"tools", "list">>, <<"tools", "call">> }

\* The request names a method, or a tool, the server does not have.
UnknownMethodOrTool ==
    /\ body.type = "dict"
    /\ \/ body.method \notin KnownMethods
       \/ /\ body.method = <<"tools", "call">>
          /\ body.params.type # "null"
          /\ body.params.name \notin KnownTools

\* The request is the notification notifications/initialized, without an id.
IsNotification ==
    /\ body.type = "dict"
    /\ body.method = <<"notifications", "initialized">>
    /\ body.id = None

\* C26: every request whose body parsed is answered with a JSON-RPC 2.0
\* outcome: HTTP 200 with a response that echoes the request id and carries
\* one of result and error; code -32601 for an unknown method or tool, code
\* -32603 when an exception was raised while handling; and an empty body for
\* notifications/initialized without an id.
C26_JsonRpcOutcome ==
    (mcp_pc = "responded" /\ body # <<>>)
    => /\ http_response.raised = NoErr
       /\ http_response.statusCode = 200
       /\ IF IsNotification THEN http_response.body = PlainBody("{}")
          ELSE /\ http_response.body.type \in {"result", "error"}
               /\ body.type = "dict" => http_response.body.id = body.id
               /\ UnknownMethodOrTool
                     => /\ http_response.body.type = "error"
                        /\ http_response.body.code = -32601
               /\ rpc_result.raised # NoErr
                     => /\ http_response.body.type = "error"
                        /\ http_response.body.code = -32603
====
